---- MODULE Spec2Model ----
(***************************************************************************)
(* A model of paddlets/datasets/tsdataset.py: the TSDataset composite      *)
(* ("Panel") that holds a target, observed covariates, known covariates    *)
(* and static covariates, and the column-level operations on it.           *)
(*                                                                         *)
(* One TSDataset object is modelled.  `self` holds its fields, `call` the  *)
(* last method invoked on it with its arguments, `err` the exception that  *)
(* call raised (NoErr when it returned) and `ret` the value it returned.   *)
(* Init is the state after TSDataset.__init__, for every choice of its     *)
(* arguments, whether it returned or raised.  A caller whose call raised   *)
(* abandons the object: every method is invoked on an object whose         *)
(* constructor and whose previous calls all returned.  A read leaves the   *)
(* object as it is, so the calls that follow a read are the calls that     *)
(* follow the state it was made in.                                        *)
(***************************************************************************)
EXTENDS Integers, Sequences, FiniteSets, TLC

VARIABLES self, call, err, ret

vars == <<self, call, err, ret>>

(***************************************************************************)
(* Bounds and value domains.                                               *)
(***************************************************************************)
\* The largest number of rows of a TimeSeries or of a pd.Series value.
MaxLen == 1

\* Column names, and the frequencies of calendar time axes.
Names == {"a", "b"}
Freqs == {"D", "H"}

\* Python's None for an optional object, and a present object.
None == <<>>
Some(x) == <<x>>

\* self._freq before _check_data has set it; also the frequency of a
\* pd.Series whose index gives pd.infer_freq nothing to infer.
NoFreq == "None"

\* Cell values: the data a TimeSeries was built with, the data of a written
\* pd.Series, and the missing value that reindex puts where the pd.Series
\* has no row.
Orig == "orig"
Written == "written"
NaN == "NaN"

\* Scalars of a static_cov dict: the value it was built with, a written int,
\* a written str.
WrittenInt == "int"
WrittenStr == "str"

(***************************************************************************)
(* Exceptions.                                                             *)
(***************************************************************************)
NoErr == [cls |-> "none", msg |-> ""]
ValueError(m) == [cls |-> "ValueError", msg |-> m]
TypeError(m) == [cls |-> "TypeError", msg |-> m]
AttributeError(m) == [cls |-> "AttributeError", msg |-> m]

\* paddlets.logger.raise_if / raise_if_not: the exception raised when the
\* condition holds (raise_if_not is raise_if of the negation).
raise_if(cond, m) == IF cond THEN ValueError(m) ELSE NoErr

(***************************************************************************)
(* TimeSeries: a table of named columns over a time index, and its freq.   *)
(***************************************************************************)
\* data maps each column to its cells, one per row, and to its dtype.
Column(cells, dtype) == [cells |-> cells, dtype |-> dtype]

TimeSeries(cols, n, f, v) ==
    [freq |-> f, len |-> n,
     data |-> [c \in cols |-> Column([i \in 1..n |-> v], "float64")]]

\* (data is the map of the columns, or a pd.DataFrame with its index, see
\* DataFrame below)
columns(ts) == IF "index" \in DOMAIN ts.data THEN DOMAIN ts.data.data ELSE DOMAIN ts.data

\* Python truthiness of an optional TimeSeries: None is false, and so is a
\* TimeSeries of no rows, because the class defines __len__ and no __bool__.
TimeSeries__len__(ts) == IF "len" \in DOMAIN ts THEN ts.len ELSE Len(ts.data.index)
Truthy(opt) == opt # None /\ TimeSeries__len__(opt[1]) # 0

\* Python truthiness of an optional dict: None and {} are false.
TruthyDict(opt) == opt # None /\ DOMAIN opt[1] # {}

\* pd.Series.reindex onto a time index of n rows: the rows the value has keep
\* their data, the others are missing.
reindex(value, n) == [i \in 1..n |-> IF i <= value.len THEN value.val ELSE NaN]

\* The TimeSeries inputs handed to the constructor and to the setters: without
\* rows (the right half of split(1.0)) or of full length.
TimeSeriesInputs ==
    { TimeSeries(cols, n, f, Orig) :
        cols \in (SUBSET Names) \ {{}}, n \in {0, MaxLen}, f \in Freqs }

OptTimeSeriesInputs == {None} \cup { Some(ts) : ts \in TimeSeriesInputs }

\* dict inputs ({} included: TSDataset.load_from_dataframe passes dict()).
DictInputs(v) == { [c \in cols |-> v] : cols \in SUBSET Names }
OptDictInputs == {None} \cup { Some(d) : d \in DictInputs(Orig) }

(***************************************************************************)
(* TSDataset._check_data                                                   *)
(***************************************************************************)
freq_list(p) ==
    (IF p.target # None THEN <<p.target[1].freq>> ELSE <<>>)
    \o (IF p.observed_cov # None THEN <<p.observed_cov[1].freq>> ELSE <<>>)
    \o (IF p.known_cov # None THEN <<p.known_cov[1].freq>> ELSE <<>>)

\* len(columns_list) and set(columns_list).
columns_list_len(p) ==
    (IF p.target # None THEN Cardinality(columns(p.target[1])) ELSE 0)
    + (IF p.observed_cov # None THEN Cardinality(columns(p.observed_cov[1])) ELSE 0)
    + (IF p.known_cov # None THEN Cardinality(columns(p.known_cov[1])) ELSE 0)
    + (IF p.static_cov # None THEN Cardinality(DOMAIN p.static_cov[1]) ELSE 0)

columns_list_set(p) ==
    (IF p.target # None THEN columns(p.target[1]) ELSE {})
    \cup (IF p.observed_cov # None THEN columns(p.observed_cov[1]) ELSE {})
    \cup (IF p.known_cov # None THEN columns(p.known_cov[1]) ELSE {})
    \cup (IF p.static_cov # None THEN DOMAIN p.static_cov[1] ELSE {})

Raise(p, e) == [self |-> p, err |-> e, ret |-> None]
Return(p, r) == [self |-> p, err |-> NoErr, ret |-> r]

\* _check_data with the freq check weakened to "some partition is present".
_check_data_any_freq(p) ==
    LET fl == freq_list(p)
        e1 == raise_if(Len(fl) < 1,
                "The freqs of target, observed_covariate, and known_covariate are not consistent.")
    IN  IF e1 # NoErr THEN Raise(p, e1)
        ELSE LET q == [p EXCEPT !.freq = fl[1]]
                 e2 == raise_if(Cardinality(columns_list_set(q)) # columns_list_len(q),
                         "Duplicated column names in target, observed_covariate, and known_covariate.")
             IN  IF e2 # NoErr THEN Raise(q, e2) ELSE Return(q, None)

\* _check_data with the static keys left out of columns_list.
_check_data_no_static_keys(p) ==
    LET fl == freq_list(p)
        e1 == raise_if(Cardinality({ fl[i] : i \in DOMAIN fl }) # 1,
                "The freqs of target, observed_covariate, and known_covariate are not consistent.")
        q0 == [p EXCEPT !.static_cov = None]
    IN  IF e1 # NoErr THEN Raise(p, e1)
        ELSE LET q == [p EXCEPT !.freq = fl[1]]
                 e2 == raise_if(Cardinality(columns_list_set(q0)) # columns_list_len(q0),
                         "Duplicated column names in target, observed_covariate, and known_covariate.")
             IN  IF e2 # NoErr THEN Raise(q, e2) ELSE Return(q, None)

_check_data(p) ==
    LET fl == freq_list(p)
        e1 == raise_if(Cardinality({ fl[i] : i \in DOMAIN fl }) # 1,
                "The freqs of target, observed_covariate, and known_covariate are not consistent.")
    IN  IF e1 # NoErr THEN Raise(p, e1)
        ELSE LET q == [p EXCEPT !.freq = fl[1]]
                 e2 == raise_if(Cardinality(columns_list_set(q)) # columns_list_len(q),
                         "Duplicated column names in target, observed_covariate, and known_covariate.")
             IN  IF e2 # NoErr THEN Raise(q, e2) ELSE Return(q, None)

(***************************************************************************)
(* TSDataset.__init__                                                      *)
(***************************************************************************)
\* __init__ that checks the time-varying partitions before static_cov is
\* stored.
TSDataset__init__check_first(target, observed_cov, known_cov, static_cov) ==
    LET r == _check_data([target |-> target, observed_cov |-> observed_cov,
                          known_cov |-> known_cov, static_cov |-> None,
                          freq |-> NoFreq])
    IN  [r EXCEPT !.self.static_cov = static_cov]

TSDataset__init__(target, observed_cov, known_cov, static_cov) ==
    _check_data([target |-> target, observed_cov |-> observed_cov,
                 known_cov |-> known_cov, static_cov |-> static_cov,
                 freq |-> NoFreq])

(***************************************************************************)
(* The partition setters.                                                  *)
(***************************************************************************)
set_target(p, target) == _check_data([p EXCEPT !.target = Some(target)])

set_observed_cov(p, observed_cov) ==
    _check_data([p EXCEPT !.observed_cov = Some(observed_cov)])

set_known_cov(p, known_cov) ==
    _check_data([p EXCEPT !.known_cov = Some(known_cov)])

\* {**self._static_cov, **static_cov}
dict_merge(old, new) ==
    [c \in DOMAIN old \cup DOMAIN new |-> IF c \in DOMAIN new THEN new[c] ELSE old[c]]

set_static_cov(p, static_cov, append) ==
    IF append /\ TruthyDict(p.static_cov)
    THEN _check_data([p EXCEPT !.static_cov = Some(dict_merge(p.static_cov[1], static_cov))])
    ELSE _check_data([p EXCEPT !.static_cov = Some(static_cov)])

target_setter(p, target) == _check_data([p EXCEPT !.target = Some(target)])

observed_cov_setter(p, observed_cov) ==
    _check_data([p EXCEPT !.observed_cov = Some(observed_cov)])

known_cov_setter(p, known_cov) ==
    _check_data([p EXCEPT !.known_cov = Some(known_cov)])

static_cov_setter(p, static_cov) ==
    _check_data([p EXCEPT !.static_cov = Some(static_cov)])

(***************************************************************************)
(* Values written by set_column and __setitem__.                           *)
(***************************************************************************)
\* A value is a pd.Series (its number of rows, and the freq that
\* pd.infer_freq finds for its index: none for an index without rows), an
\* int, a str, or a float.
SeriesValue(n, f) == [kind |-> "Series", len |-> n, freq |-> f, val |-> Written]
ScalarValue(k, v) == [kind |-> k, len |-> 0, freq |-> NoFreq, val |-> v]

SeriesValues ==
    { SeriesValue(n, f) : n \in 1..MaxLen, f \in Freqs \cup {NoFreq} }
    \cup { SeriesValue(0, NoFreq) }

ScalarValues ==
    { ScalarValue("int", WrittenInt), ScalarValue("str", WrittenStr),
      ScalarValue("float", "float") }

Values == SeriesValues \cup ScalarValues

\* isinstance(value, pd.Series); isinstance(value, int) or isinstance(value, str)
IsSeries(value) == value.kind = "Series"
IsIntOrStr(value) == value.kind \in {"int", "str"}

\* TimeSeries.load_from_dataframe(pd.DataFrame(value.rename(column),
\* index=value.index)): no freq is passed, so the freq of the calendar index
\* is inferred and the load fails when nothing can be inferred.
TimeSeries_load_from_dataframe(value, column) ==
    LET e == raise_if(value.freq = NoFreq,
                "Failed to infer the freq. A valid freq is required.")
    IN  IF e # NoErr THEN [err |-> e, ret |-> None]
        ELSE [err |-> NoErr,
              ret |-> Some(TimeSeries({column}, value.len, value.freq, value.val))]

\* ts.data[column] = cells: the column takes the dtype of the value.
setitem_data(ts, column, cells) ==
    [ts EXCEPT !.data =
        [c \in columns(ts) \cup {column} |->
            IF c = column THEN Column(cells, "float64") ELSE ts.data[c]]]

\* d[column] = v
setitem_dict(d, column, v) ==
    [c \in DOMAIN d \cup {column} |-> IF c = column THEN v ELSE d[c]]

(***************************************************************************)
(* TSDataset.get_item_from_column: the partition that holds a column.      *)
(* The object it returns is named by the field that holds it.              *)
(***************************************************************************)
get_item_from_column(p, column) ==
    IF Truthy(p.target) /\ column \in columns(p.target[1])
    THEN Return(p, Some("target"))
    ELSE IF Truthy(p.observed_cov) /\ column \in columns(p.observed_cov[1])
    THEN Return(p, Some("observed_cov"))
    ELSE IF Truthy(p.known_cov) /\ column \in columns(p.known_cov[1])
    THEN Return(p, Some("known_cov"))
    ELSE IF TruthyDict(p.static_cov) /\ column \in DOMAIN p.static_cov[1]
    THEN Return(p, Some("static_cov"))
    ELSE Raise(p, ValueError("column not exists!"))

(***************************************************************************)
(* TSDataset.__getitem__: the data of the given columns.  The table it     *)
(* returns maps each column to the partition it was taken from and to its  *)
(* cells.                                                                  *)
(***************************************************************************)
Range(seq) == { seq[i] : i \in DOMAIN seq }

columns_in(opt, cols) ==
    IF Truthy(opt) THEN { v \in Range(cols) : v \in columns(opt[1]) } ELSE {}

columns_in_static_cov(p, cols) ==
    IF TruthyDict(p.static_cov)
    THEN { v \in Range(cols) : v \in DOMAIN p.static_cov[1] } ELSE {}

getitem_column(p, cols, c) ==
    IF c \in columns_in(p.target, cols)
    THEN [part |-> "target", cells |-> p.target[1].data[c].cells]
    ELSE IF c \in columns_in(p.observed_cov, cols)
    THEN [part |-> "observed_cov", cells |-> p.observed_cov[1].data[c].cells]
    ELSE IF c \in columns_in(p.known_cov, cols)
    THEN [part |-> "known_cov", cells |-> p.known_cov[1].data[c].cells]
    ELSE [part |-> "static_cov",
          cells |-> [i \in 1..TimeSeries__len__(p.target[1]) |-> p.static_cov[1][c]]]

__getitem__(p, cols) ==
    LET e0 == raise_if(Cardinality(Range(cols)) # Len(cols),
                 "Duplicated values found in the columns")
        in_static == columns_in_static_cov(p, cols)
        count == Cardinality(columns_in(p.target, cols))
                 + Cardinality(columns_in(p.observed_cov, cols))
                 + Cardinality(columns_in(p.known_cov, cols))
                 + Cardinality(in_static)
        e1 == raise_if(count # Len(cols), "The specified columns don't exist!")
    IN  IF e0 # NoErr THEN Raise(p, e0)
        ELSE IF in_static # {} /\ p.target = None
        THEN Raise(p, AttributeError("'NoneType' object has no attribute 'data'"))
        ELSE IF e1 # NoErr THEN Raise(p, e1)
        ELSE IF count = 0 THEN Return(p, None)
        ELSE Return(p, Some([c \in Range(cols) |-> getitem_column(p, cols, c)]))

(***************************************************************************)
(* TSDataset.set_column and TSDataset.__setitem__                          *)
(***************************************************************************)
\* The branch of set_column that adds a new column to target, known_cov or
\* observed_cov (the field named slot).
set_column_add(p, slot, column, value, m) ==
    LET e == raise_if(~IsSeries(value), m)
    IN  IF e # NoErr THEN Raise(p, e)
        ELSE IF p[slot] # None
        THEN _check_data([p EXCEPT ![slot] =
                Some(setitem_data(p[slot][1], column,
                                  reindex(value, TimeSeries__len__(p[slot][1]))))])
        ELSE LET l == TimeSeries_load_from_dataframe(value, column)
             IN  IF l.err # NoErr THEN Raise(p, l.err)
                 ELSE _check_data([p EXCEPT ![slot] = l.ret])

set_column_add_static(p, column, value) ==
    LET e == raise_if(~IsIntOrStr(value),
                "New column added to the static_cov should be int or str")
    IN  IF e # NoErr THEN Raise(p, e)
        ELSE IF p.static_cov # None
        THEN _check_data([p EXCEPT !.static_cov =
                Some(setitem_dict(p.static_cov[1], column, value.val))])
        ELSE _check_data([p EXCEPT !.static_cov = Some(setitem_dict(<<>>, column, value.val))])

set_column_modify(p, attr, column, value) ==
    IF attr = "static_cov"
    THEN LET e == raise_if(~IsIntOrStr(value), "value is illegal!")
         IN  IF e # NoErr THEN Raise(p, e)
             ELSE Return([p EXCEPT !.static_cov =
                     Some(setitem_dict(p.static_cov[1], column, value.val))], None)
    ELSE LET e == raise_if(~IsSeries(value), "value is illegal!")
         IN  IF e # NoErr THEN Raise(p, e)
             ELSE Return([p EXCEPT ![attr] =
                     Some(setitem_data(p[attr][1], column,
                                       reindex(value, TimeSeries__len__(p[attr][1]))))], None)

Types == {"target", "known_cov", "observed_cov", "static_cov", "other"}

set_column(p, column, value, type) ==
    LET attr == get_item_from_column(p, column)
    IN  IF attr.err # NoErr
        THEN CASE type = "target" ->
                    set_column_add(p, "target", column, value,
                        "New column added to the target should be pd.Series.")
               [] type = "known_cov" ->
                    set_column_add(p, "known_cov", column, value,
                        "New column added to the target should be pd.Series.")
               [] type = "observed_cov" ->
                    set_column_add(p, "observed_cov", column, value,
                        "New column added to the observed_cov should be pd.Series.")
               [] type = "static_cov" -> set_column_add_static(p, column, value)
               [] OTHER -> Raise(p, ValueError("Illegal type"))
        ELSE set_column_modify(p, attr.ret[1], column, value)

__setitem__(p, column, value) == set_column(p, column, value, "known_cov")

(***************************************************************************)
(* TSDataset.drop                                                          *)
(***************************************************************************)
\* drop that keeps a TimeSeries that has lost all its columns.
drop_slot_keep_empty(opt, cols) ==
    IF opt # None /\ columns(opt[1]) \cap Range(cols) # {}
    THEN Some([opt[1] EXCEPT !.data =
                [c \in columns(opt[1]) \ Range(cols) |-> opt[1].data[c]]])
    ELSE opt

\* The field named slot after the drop of cols from it.
drop_slot(opt, cols) ==
    IF opt # None /\ columns(opt[1]) \cap Range(cols) # {}
    THEN IF columns(opt[1]) \subseteq Range(cols)
         THEN None
         ELSE Some([opt[1] EXCEPT !.data =
                     [c \in columns(opt[1]) \ Range(cols) |-> opt[1].data[c]]])
    ELSE opt

drop_static_cov(opt, cols) ==
    IF opt # None /\ DOMAIN opt[1] \cap Range(cols) # {}
    THEN IF DOMAIN opt[1] \subseteq Range(cols)
         THEN None
         ELSE Some([c \in DOMAIN opt[1] \ Range(cols) |-> opt[1][c]])
    ELSE opt

drop(p, cols) ==
    LET e == raise_if(Cardinality(Range(cols)) # Len(cols), "Duplicated column names found")
    IN  IF e # NoErr THEN Raise(p, e)
        ELSE Return([p EXCEPT !.target = drop_slot(p.target, cols),
                              !.observed_cov = drop_slot(p.observed_cov, cols),
                              !.known_cov = drop_slot(p.known_cov, cols),
                              !.static_cov = drop_static_cov(p.static_cov, cols)], None)

\* TSDataset.columns: the time-varying columns and the partition of each;
\* a later assignment to the same key wins.
TSDataset_columns(p) ==
    LET in(s) == IF p[s] = None THEN {} ELSE columns(p[s][1])
    IN  [c \in in("target") \cup in("known_cov") \cup in("observed_cov") |->
            IF c \in in("observed_cov") THEN "observed_cov"
            ELSE IF c \in in("known_cov") THEN "known_cov"
            ELSE "target"]

\* TimeSeries.astype with a dict: the columns of dtype are cast.
TimeSeries_astype(ts, dtype) ==
    [ts EXCEPT !.data =
        [c \in columns(ts) |->
            IF c \in DOMAIN dtype THEN Column(ts.data[c].cells, dtype[c]) ELSE ts.data[c]]]

\* The dtypes astype casts to, and its arguments: a str, a dict or neither.
AsDtypes == {"float32"}
AstypeInputs ==
    { [kind |-> "str", str |-> d, dict |-> <<>>] : d \in AsDtypes }
    \cup { [kind |-> "dict", str |-> "", dict |-> f] :
             f \in UNION { [S -> AsDtypes] : S \in SUBSET Names } }
    \cup { [kind |-> "other", str |-> "", dict |-> <<>>] }

\* One partition after astype: it is cast when it is present and its share
\* of type is not empty.
astype_slot(p, s, type) ==
    IF p[s] = None THEN p[s]
    ELSE IF type.kind = "str"
         THEN Some(TimeSeries_astype(p[s][1], [c \in columns(p[s][1]) |-> type.str]))
         ELSE LET mine == { key \in DOMAIN type.dict : TSDataset_columns(p)[key] = s }
              IN  IF mine = {} THEN p[s]
                  ELSE Some(TimeSeries_astype(p[s][1], [key \in mine |-> type.dict[key]]))

\* astype that casts the target alone.
astype_target_only(p, type) ==
    IF type.kind = "dict" /\ \E key \in DOMAIN type.dict : key \notin DOMAIN TSDataset_columns(p)
    THEN Raise(p, ValueError("Invaild key"))
    ELSE IF type.kind \notin {"str", "dict"}
    THEN Raise(p, TypeError("Invaild type"))
    ELSE Return([p EXCEPT !.target = astype_slot(p, "target", type)], None)

astype(p, type) ==
    IF type.kind = "dict" /\ \E key \in DOMAIN type.dict : key \notin DOMAIN TSDataset_columns(p)
    THEN Raise(p, ValueError("Invaild key"))
    ELSE IF type.kind \notin {"str", "dict"}
    THEN Raise(p, TypeError("Invaild type"))
    ELSE Return([p EXCEPT !.target = astype_slot(p, "target", type),
                          !.known_cov = astype_slot(p, "known_cov", type),
                          !.observed_cov = astype_slot(p, "observed_cov", type)], None)

\* The lists of column names handed to __getitem__ and to drop.
MaxColumns == 2
ColumnLists == UNION { [1..n -> Names] : n \in 0..MaxColumns }

(***************************************************************************)
(* The state machine.                                                      *)
(***************************************************************************)
NoArgs == [columns |-> <<>>, kind |-> "", type |-> ""]
Call(op, args) == [op |-> op, columns |-> args.columns, kind |-> args.kind, type |-> args.type]

Do(op, args, r) ==
    /\ self' = r.self
    /\ err' = r.err
    /\ ret' = r.ret
    /\ call' = Call(op, args)

\* The calls that return a view of the object and leave it as it is.
Reads == {"get_item_from_column", "__getitem__"}

\* The object takes a further call when the previous call returned and was
\* not a read: a read is followed up from the state it was made in, which is
\* the state it leaves.
Usable == err = NoErr /\ call.op \notin Reads

Init ==
    \E t \in OptTimeSeriesInputs, o \in OptTimeSeriesInputs,
       k \in OptTimeSeriesInputs, s \in OptDictInputs :
        LET r == TSDataset__init__(t, o, k, s)
        IN  /\ self = r.self
            /\ err = r.err
            /\ ret = r.ret
            /\ call = Call("__init__", NoArgs)

SetTarget ==
    /\ Usable
    /\ \E ts \in TimeSeriesInputs : Do("set_target", NoArgs, set_target(self, ts))

SetObservedCov ==
    /\ Usable
    /\ \E ts \in TimeSeriesInputs : Do("set_observed_cov", NoArgs, set_observed_cov(self, ts))

SetKnownCov ==
    /\ Usable
    /\ \E ts \in TimeSeriesInputs : Do("set_known_cov", NoArgs, set_known_cov(self, ts))

SetStaticCov ==
    /\ Usable
    /\ \E d \in DictInputs(WrittenInt), append \in BOOLEAN :
        Do("set_static_cov", NoArgs, set_static_cov(self, d, append))

TargetSetter ==
    /\ Usable
    /\ \E ts \in TimeSeriesInputs : Do("target.setter", NoArgs, target_setter(self, ts))

ObservedCovSetter ==
    /\ Usable
    /\ \E ts \in TimeSeriesInputs : Do("observed_cov.setter", NoArgs, observed_cov_setter(self, ts))

KnownCovSetter ==
    /\ Usable
    /\ \E ts \in TimeSeriesInputs : Do("known_cov.setter", NoArgs, known_cov_setter(self, ts))

StaticCovSetter ==
    /\ Usable
    /\ \E d \in DictInputs(WrittenInt) : Do("static_cov.setter", NoArgs, static_cov_setter(self, d))

GetItemFromColumn ==
    /\ Usable
    /\ \E c \in Names :
        Do("get_item_from_column", [NoArgs EXCEPT !.columns = <<c>>],
           get_item_from_column(self, c))

GetItem ==
    /\ Usable
    /\ \E cols \in ColumnLists :
        Do("__getitem__", [NoArgs EXCEPT !.columns = cols], __getitem__(self, cols))

SetColumn ==
    /\ Usable
    /\ \E c \in Names, v \in Values, t \in Types :
        Do("set_column", [columns |-> <<c>>, kind |-> v.kind, type |-> t],
           set_column(self, c, v, t))

SetItem ==
    /\ Usable
    /\ \E c \in Names, v \in Values :
        Do("__setitem__", [columns |-> <<c>>, kind |-> v.kind, type |-> ""],
           __setitem__(self, c, v))

Drop ==
    /\ Usable
    /\ \E cols \in ColumnLists :
        Do("drop", [NoArgs EXCEPT !.columns = cols], drop(self, cols))

Astype ==
    /\ Usable
    /\ \E type \in AstypeInputs :
        Do("astype", [NoArgs EXCEPT !.kind = type.kind], astype(self, type))

Next ==
    \/ SetTarget
    \/ SetObservedCov
    \/ SetKnownCov
    \/ SetStaticCov
    \/ TargetSetter
    \/ ObservedCovSetter
    \/ KnownCovSetter
    \/ StaticCovSetter
    \/ GetItemFromColumn
    \/ GetItem
    \/ SetColumn
    \/ SetItem
    \/ Drop
    \/ Astype

Spec == Init /\ [][Next]_vars

(***************************************************************************)
(* The claims.                                                             *)
(***************************************************************************)
TimeVarying == {"target", "observed_cov", "known_cov"}
Partitions == TimeVarying \cup {"static_cov"}

\* The column names of a partition: the columns of a TimeSeries, the keys of
\* static_cov, nothing when it is absent.
Cols(p, s) ==
    IF p[s] = None THEN {}
    ELSE IF s = "static_cov" THEN DOMAIN p[s][1] ELSE columns(p[s][1])

AllCols(p) == UNION { Cols(p, s) : s \in Partitions }

PresentFreqs(p) == { p[s][1].freq : s \in { t \in TimeVarying : p[t] # None } }

OneFreq(p) == \A s \in TimeVarying : p[s] # None => p[s][1].freq = p.freq

UniqueNames(p) ==
    \A s \in Partitions, t \in Partitions : s # t => Cols(p, s) \cap Cols(p, t) = {}

Setters ==
    {"set_target", "set_observed_cov", "set_known_cov", "set_static_cov",
     "target.setter", "observed_cov.setter", "known_cov.setter", "static_cov.setter"}

\* C1: after the constructor and any sequence of calls that all returned,
\* every present time-varying partition has the freq held in self._freq.
C1_OneFrequency == err = NoErr => OneFreq(self)

C1_Witness ==
    /\ err = NoErr
    /\ call.op = "set_column"
    /\ call.type = "observed_cov"
    /\ self.target # None
    /\ self.observed_cov # None
    /\ self.known_cov = None

\* C2: after the constructor and any sequence of calls that all returned, no
\* column name is held by two of target, observed_cov, known_cov, static_cov.
C2_UniqueNames == err = NoErr => UniqueNames(self)

C2_Witness ==
    /\ err = NoErr
    /\ call.op = "set_static_cov"
    /\ Cols(self, "static_cov") = {"a"}
    /\ Cols(self, "target") = {"b"}

\* C3: a setter, or a set_column call with a name that no partition holds,
\* that raises leaves target, observed_cov, known_cov, static_cov and freq as
\* they were before the call.
C3_NoPartialMutation ==
    [][(/\ \/ call'.op \in Setters
           \/ call'.op = "set_column" /\ call'.columns[1] \notin AllCols(self)
        /\ err' # NoErr) => self' = self]_vars

\* set_observed_cov has raised and observed_cov holds a column of the target.
C3_Witness ==
    /\ call.op = "set_observed_cov"
    /\ err.cls = "ValueError"
    /\ self.freq = "D"
    /\ Cols(self, "target") = {"a"}
    /\ self.target[1].len = MaxLen
    /\ Cols(self, "observed_cov") = {"a"}

\* C4: the constructor returns exactly when the present time-varying
\* partitions have exactly one distinct freq and no column name repeats
\* across the four partitions, and raises a ValueError otherwise.
C4_Constructor ==
    call.op = "__init__" =>
        /\ err = NoErr <=> (Cardinality(PresentFreqs(self)) = 1 /\ UniqueNames(self))
        /\ err # NoErr => err.cls = "ValueError"

\* A target of freq "D" with an observed_cov of freq "H" is rejected.
C4_Witness ==
    /\ call.op = "__init__"
    /\ err.cls = "ValueError"
    /\ self.target # None /\ self.target[1].freq = "D"
    /\ self.observed_cov # None /\ self.observed_cov[1].freq = "H"
    /\ self.known_cov = None
    /\ UniqueNames(self)

\* The first partition, in the order target, observed_cov, known_cov,
\* static_cov, whose column names contain c.
FirstHolder(p, c) ==
    IF c \in Cols(p, "target") THEN "target"
    ELSE IF c \in Cols(p, "observed_cov") THEN "observed_cov"
    ELSE IF c \in Cols(p, "known_cov") THEN "known_cov"
    ELSE "static_cov"

\* Every present time-varying partition has at least one row.
HasRows(p) == \A s \in TimeVarying : p[s] # None => p[s][1].len > 0

\* get_item_from_column(c) raised e or returned r as the claim says.
LocateOk(p, c, e, r) ==
    /\ e = NoErr <=> c \in AllCols(p)
    /\ e = NoErr => r = Some(FirstHolder(p, c))
    /\ e # NoErr => e.cls = "ValueError"

\* C5: get_item_from_column returns the first partition, in the order
\* target, observed_cov, known_cov, static_cov, whose column names contain
\* the name, and raises ValueError exactly when no partition contains it.
C5_Locate ==
    call.op = "get_item_from_column" => LocateOk(self, call.columns[1], err, ret)

\* The name is a column of the target and get_item_from_column has raised.
C5_Witness ==
    /\ call.op = "get_item_from_column"
    /\ call.columns = <<"a">>
    /\ err = ValueError("column not exists!")
    /\ "a" \in Cols(self, "target")

\* C5 where every present partition has rows.
C5_LocateWithRows ==
    (call.op = "get_item_from_column" /\ HasRows(self)) =>
        LocateOk(self, call.columns[1], err, ret)

\* __getitem__(cols) raised e or returned r as the claim says.
ReadOk(p, cols, e, r) ==
    IF Range(cols) \subseteq AllCols(p)
    THEN /\ e = NoErr
         /\ r # None
         /\ DOMAIN r[1] = Range(cols)
         /\ \A c \in Range(cols) \cap Cols(p, "static_cov") :
                r[1][c].cells = [i \in 1..p.target[1].len |-> p.static_cov[1][c]]
    ELSE e.cls = "ValueError"

\* C6: __getitem__ over distinct names returns one column per name when
\* every name is a column of some partition, a static key as a constant
\* column over the time index of the target, and raises ValueError when some
\* name is a column of no partition.  Stated for the objects whose
\* partitions all have rows, where get_item_from_column finds every column.
C6_Read ==
    (call.op = "__getitem__" /\ call.columns # <<>> /\ HasRows(self)
        /\ Cardinality(Range(call.columns)) = Len(call.columns)) =>
        ReadOk(self, call.columns, err, ret)

\* A static key is read from an object without target.
C6_Witness ==
    /\ call.op = "__getitem__"
    /\ call.columns = <<"a">>
    /\ err.cls = "AttributeError"
    /\ Cols(self, "static_cov") = {"a"}
    /\ self.target = None
    /\ HasRows(self)

\* C6 where the target is present.
C6_ReadWithTarget ==
    (call.op = "__getitem__" /\ call.columns # <<>> /\ HasRows(self)
        /\ Cardinality(Range(call.columns)) = Len(call.columns)
        /\ self.target # None) =>
        ReadOk(self, call.columns, err, ret)

\* The data of column c of partition s.
Data(p, s, c) == IF s = "static_cov" THEN p[s][1][c] ELSE p[s][1].data[c]

\* Column c of partition s holds a written value of kind k: the written
\* scalar, or cells of the written pd.Series aligned on the time index.
HoldsWritten(p, s, c, k) ==
    IF s = "static_cov"
    THEN p[s][1][c] = (IF k = "int" THEN WrittenInt ELSE WrittenStr)
    ELSE /\ DOMAIN p[s][1].data[c].cells = 1..p[s][1].len
         /\ \A i \in 1..p[s][1].len : p[s][1].data[c].cells[i] \in {Written, NaN}

\* Partition s is as it was but for column c.
OnlyColumnChanged(p, q, s, c) ==
    /\ Cols(q, s) = Cols(p, s)
    /\ \A d \in Cols(p, s) \ {c} : Data(q, s, d) = Data(p, s, d)
    /\ s # "static_cov" => (q[s][1].freq = p[s][1].freq /\ q[s][1].len = p[s][1].len)

\* The kind of value the partition takes: int or str for static_cov, a
\* pd.Series for the others.
RightKind(s, k) == IF s = "static_cov" THEN k \in {"int", "str"} ELSE k = "Series"

\* set_column(c, value of kind k, t) on p, with c in no partition of p,
\* raised e and left q as the claim says.
WriteNewOk(p, q, e, c, k, t) ==
    /\ (t \in Partitions /\ e = NoErr) =>
        /\ Cols(q, t) = Cols(p, t) \cup {c}
        /\ \A s \in Partitions \ {t} : q[s] = p[s]
    /\ (t = "static_cov" /\ k = "Series") => (e # NoErr /\ q = p)
    /\ (t = "static_cov" /\ k \in {"int", "str"}) =>
        /\ e = NoErr
        /\ get_item_from_column(q, c).ret = Some("static_cov")
    /\ t \notin Partitions => e # NoErr

\* C7: set_column of a name that no partition holds creates the column in
\* the partition named by type and in no other; with type static_cov a
\* pd.Series is rejected and nothing changes, an int or a str is accepted
\* and get_item_from_column then returns static_cov; any other type is
\* rejected.
C7_WriteNew ==
    [][(call'.op = "set_column" /\ call'.columns[1] \notin AllCols(self)) =>
        WriteNewOk(self, self', err', call'.columns[1], call'.kind, call'.type)
    ]_vars

\* An int written as a new static column has been stored and the call has
\* raised: no time-varying partition is present.
C7_Witness ==
    /\ call.op = "set_column"
    /\ call.columns = <<"a">>
    /\ call.kind = "int"
    /\ call.type = "static_cov"
    /\ err.cls = "ValueError"
    /\ \A s \in TimeVarying : self[s] = None
    /\ Cols(self, "static_cov") = {"a"}

\* C7 where some time-varying partition is present.
C7_WriteNewWithPartition ==
    [][(call'.op = "set_column" /\ call'.columns[1] \notin AllCols(self)
            /\ PresentFreqs(self) # {}) =>
        WriteNewOk(self, self', err', call'.columns[1], call'.kind, call'.type)
    ]_vars

\* The update of column c of p, held by partition owner, by a call with a
\* value of kind k that raised e and left q: the column sets stay, every
\* other partition and every other column stays, a value of the right kind
\* is stored in the owner and a value of the wrong kind is rejected with
\* nothing changed.
UpdatesInPlace(p, q, e, c, k) ==
    LET owner == FirstHolder(p, c)
    IN  /\ \A s \in Partitions : Cols(q, s) = Cols(p, s)
        /\ \A s \in Partitions \ {owner} : q[s] = p[s]
        /\ q.freq = p.freq
        /\ RightKind(owner, k) =>
            /\ e = NoErr
            /\ HoldsWritten(q, owner, c, k)
            /\ OnlyColumnChanged(p, q, owner, c)
        /\ ~RightKind(owner, k) => (e # NoErr /\ q = p)

\* C8: set_column of a name that a partition holds updates the column in
\* that partition (the one get_item_from_column is to return), whatever
\* type is passed, and keeps the column names of every partition;
\* static_cov takes an int or a str, the other partitions a pd.Series, and
\* a value of the wrong kind is rejected with nothing changed.
C8_WriteExisting ==
    [][(call'.op = "set_column" /\ call'.columns[1] \in AllCols(self)) =>
        UpdatesInPlace(self, self', err', call'.columns[1], call'.kind)
    ]_vars

\* A pd.Series written to a column of the target has been stored as a
\* column of known_cov and the call has raised.
C8_Witness ==
    /\ call.op = "set_column"
    /\ call.columns = <<"a">>
    /\ call.kind = "Series"
    /\ call.type = "known_cov"
    /\ err.cls = "ValueError"
    /\ Cols(self, "target") = {"a"}
    /\ Cols(self, "known_cov") = {"a"}

\* C8 where get_item_from_column finds the name.
C8_WriteLocated ==
    [][(call'.op = "set_column"
            /\ get_item_from_column(self, call'.columns[1]).err = NoErr) =>
        /\ get_item_from_column(self, call'.columns[1]).ret =
                Some(FirstHolder(self, call'.columns[1]))
        /\ UpdatesInPlace(self, self', err', call'.columns[1], call'.kind)
    ]_vars

\* self[c] = value on p, with c in no partition of p, raised e and left q
\* as the claim says.
SetItemNewOk(p, q, e, c, k) ==
    /\ \A s \in Partitions \ {"known_cov"} : q[s] = p[s]
    /\ e = NoErr => Cols(q, "known_cov") = Cols(p, "known_cov") \cup {c}
    /\ (k = "Series" /\ p.known_cov # None) => e = NoErr

\* C9: __setitem__ of a name that no partition holds creates the column in
\* known_cov, never in target, observed_cov or static_cov; of a name that a
\* partition holds, it updates the column where it is.
C9_SetItem ==
    [][call'.op = "__setitem__" =>
        LET c == call'.columns[1]
        IN  /\ c \notin AllCols(self) => SetItemNewOk(self, self', err', c, call'.kind)
            /\ c \in AllCols(self) => UpdatesInPlace(self, self', err', c, call'.kind)
    ]_vars

\* A pd.Series assigned to a column of the target has been stored as a
\* column of known_cov and the call has raised.
C9_Witness ==
    /\ call.op = "__setitem__"
    /\ call.columns = <<"a">>
    /\ call.kind = "Series"
    /\ err.cls = "ValueError"
    /\ Cols(self, "target") = {"a"}
    /\ Cols(self, "known_cov") = {"a"}

\* C9 where get_item_from_column finds the name or no partition holds it.
C9_SetItemLocated ==
    [][call'.op = "__setitem__" =>
        LET c == call'.columns[1]
        IN  /\ c \notin AllCols(self) => SetItemNewOk(self, self', err', c, call'.kind)
            /\ get_item_from_column(self, c).err = NoErr =>
                UpdatesInPlace(self, self', err', c, call'.kind)
    ]_vars

\* C10: drop removes the given names from the partitions that hold them and
\* keeps every other column; a partition that loses all its columns becomes
\* None; self._freq stays; and __getitem__ of a dropped name, right after
\* the drop, raises the ValueError "The specified columns don't exist!".
C10_Drop ==
    [][/\ (call'.op = "drop" /\ err' = NoErr) =>
            LET d == Range(call'.columns)
            IN  /\ \A s \in Partitions :
                    /\ Cols(self', s) = Cols(self, s) \ d
                    /\ \A c \in Cols(self', s) : Data(self', s, c) = Data(self, s, c)
                    /\ (Cols(self, s) \cap d # {} /\ Cols(self, s) \subseteq d) =>
                            self'[s] = None
                    /\ Cols(self, s) \cap d = {} => self'[s] = self[s]
                /\ self'.freq = self.freq
       /\ (call.op = "drop" /\ err = NoErr /\ call'.op = "__getitem__"
            /\ Len(call'.columns) = 1 /\ call'.columns[1] \in Range(call.columns)) =>
            err' = ValueError("The specified columns don't exist!")
    ]_vars

\* drop(["a"]) has removed the only time-varying partition, static_cov and
\* freq stay.
C10_Witness ==
    /\ call.op = "drop"
    /\ call.columns = <<"a">>
    /\ err = NoErr
    /\ \A s \in TimeVarying : self[s] = None
    /\ Cols(self, "static_cov") = {"b"}
    /\ self.freq = "H"

(***************************************************************************)
(* TimeSeries with its time index.                                         *)
(*                                                                         *)
(* The operations on the time axis (load_from_dataframe,                   *)
(* get_index_at_point, split, concat) are modelled on a TimeSeries whose   *)
(* pd.DataFrame keeps its index: a time is an integer (the label of a      *)
(* RangeIndex, or the day of a DatetimeIndex), a freq is an int step or a  *)
(* str whose period is a number of days.  In the specifications of this    *)
(* part `self` holds the object or the input the call is made on, and the  *)
(* call returns in `ret`.                                                  *)
(***************************************************************************)
\* The largest number of rows of a pd.DataFrame.
MaxRows == 3

\* The largest step of a RangeIndex and the longest period of a freq str.
MaxStep == 2

\* freq: an int, a str (val is its period in days: "D" is 1, "2D" is 2), or
\* None.
IntFreq(n) == [type |-> "int", val |-> n]
StrFreq(n) == [type |-> "str", val |-> n]
NoneFreq == [type |-> "None", val |-> 0]

\* pd.DataFrame: the kind of its index, the index, and the cells of each
\* column, one per row.
DataFrame(kind, index, data) == [kind |-> kind, index |-> index, data |-> data]

\* The cells of the i-th row a table was built with, and of a missing row.
Cell(i) == <<"row", i>>
NaNCell == <<"NaN", 0>>

SetMin(S) == CHOOSE x \in S : \A y \in S : x <= y
SetMax(S) == CHOOSE x \in S : \A y \in S : x >= y

\* The ascending sequence of the elements of a set of integers.
RECURSIVE Sorted(_)
Sorted(S) == IF S = {} THEN <<>> ELSE <<SetMin(S)>> \o Sorted(S \ {SetMin(S)})

\* pd.RangeIndex(start, stop, step) of n labels.
RangeIndex(start, step, n) == [i \in 1..n |-> start + (i - 1) * step]

\* df.loc[a:b] by position: the row at b is part of the slice.
iloc_inclusive(df, a, b) ==
    LET clamp(k) == IF k > Len(df.index) THEN Len(df.index) ELSE k
    IN  [df EXCEPT !.index = SubSeq(df.index, clamp(a) + 1, clamp(b + 1)),
                   !.data = [c \in DOMAIN df.data |->
                                SubSeq(df.data[c], clamp(a) + 1, clamp(b + 1))]]

\* df.iloc[a:b] for 0 <= a and 0 <= b: a bound beyond the last row stands
\* for the end of the table.
iloc(df, a, b) ==
    LET clamp(k) == IF k > Len(df.index) THEN Len(df.index) ELSE k
    IN  [df EXCEPT !.index = SubSeq(df.index, clamp(a) + 1, clamp(b)),
                   !.data = [c \in DOMAIN df.data |->
                                SubSeq(df.data[c], clamp(a) + 1, clamp(b))]]

\* df.reindex(index): the row of each label, a missing row where df has
\* none.
df_reindex(df, index) ==
    LET pos(t) == CHOOSE j \in DOMAIN df.index : df.index[j] = t
    IN  [df EXCEPT !.index = index,
                   !.data = [c \in DOMAIN df.data |->
                        [i \in DOMAIN index |->
                            IF index[i] \in Range(df.index)
                            THEN df.data[c][pos(index[i])] ELSE NaNCell]]]

\* df.asfreq(freq) on a DatetimeIndex: the rows over the regular axis from
\* the first to the last time of df; a table without rows stays as it is.
asfreq(df, step) ==
    IF df.index = <<>> THEN df
    ELSE LET lo == SetMin(Range(df.index))
             hi == SetMax(Range(df.index))
         IN  df_reindex(df, [i \in 1..((hi - lo) \div step + 1) |-> lo + (i - 1) * step])

\* TimeSeries.__init__(data, freq)
TimeSeries__init__(data, freq) ==
    IF freq.type = "str"
    THEN [data |-> asfreq(data, freq.val), freq |-> freq]
    ELSE [data |-> data, freq |-> freq]

\* len(ts.data), ts.start_time, ts.end_time
shape0(ts) == Len(ts.data.index)
start_time(ts) == ts.data.index[1]
end_time(ts) == ts.data.index[shape0(ts)]

\* A TimeSeries of n rows from time start on, as the loader builds it.
RegularSeries(kind, cols, start, step, n) ==
    TimeSeries__init__(
        DataFrame(kind, [i \in 1..n |-> start + (i - 1) * step],
                  [c \in cols |-> [i \in 1..n |-> Cell(i)]]),
        IF kind = "RangeIndex" THEN IntFreq(step) ELSE StrFreq(step))

IndexKinds == {"RangeIndex", "DatetimeIndex"}

SeriesInputs ==
    { RegularSeries(kind, cols, start, step, n) :
        kind \in IndexKinds, cols \in {{"a"}, {"a", "b"}},
        start \in 0..1, step \in 1..MaxStep, n \in 1..MaxRows }

(***************************************************************************)
(* TimeSeries.get_index_at_point, TimeSeries.split, TimeSeries.concat      *)
(***************************************************************************)
IndexError(m) == [cls |-> "IndexError", msg |-> m]

\* The denominator of the float points: a float point is val / Den.
Den == 4

\* A point: a float, an int, a pd.Timestamp (val is its day), a str that
\* pd.Timestamp parses (val is its day), or a value of another type.
Point(type, val) == [type |-> type, val |-> val]

\* math.floor(rows * point) for the float point.
floor_mul(rows, point) == (rows * point.val) \div Den

\* The position of the last time of the index that is not before t.
first_after_last(index, t) ==
    SetMax({ j \in DOMAIN index : index[j] >= t }) - 1

\* get_loc(next(filter(lambda t: t >= point, time_index))): the 0-based
\* position of the first time of the index that is not before t.
first_after(index, t) ==
    SetMin({ j \in DOMAIN index : index[j] >= t }) - 1

\* get_loc(next(filter(lambda t: t <= point, time_index[::-1]))): the
\* 0-based position of the last time of the index that is not after t.
first_before(index, t) ==
    SetMax({ j \in DOMAIN index : index[j] <= t }) - 1

\* The position of t counted from 1.
get_loc_from_one(index, t) == CHOOSE j \in DOMAIN index : index[j] = t

\* time_index.get_loc(t): the 0-based position of t.
get_loc(index, t) == (CHOOSE j \in DOMAIN index : index[j] = t) - 1

get_index_at_point(ts, point0, after) ==
    LET point == IF point0.type = "str" THEN Point("Timestamp", point0.val) ELSE point0
        index == ts.data.index
    IN  IF point.type = "float"
        THEN IF ~(0 <= point.val /\ point.val <= Den)
             THEN Raise(ts, ValueError("point (float) should be between 0.0 and 1.0."))
             ELSE Return(ts, Some(floor_mul(shape0(ts) - 1, point)))
        ELSE IF point.type = "int"
        THEN IF point.val \notin 0..(shape0(ts) - 1)
             THEN Raise(ts, ValueError("point (int) should be a valid index in series."))
             ELSE Return(ts, Some(point.val))
        ELSE IF point.type = "Timestamp"
        THEN IF ts.data.kind # "DatetimeIndex"
             THEN Raise(ts, ValueError("the type of time column is not DatetimeIndex"))
             ELSE IF index = <<>>
             THEN Raise(ts, IndexError("index 0 is out of bounds for axis 0 with size 0"))
             ELSE IF ~(point.val >= start_time(ts) /\ point.val <= end_time(ts))
             THEN Raise(ts, ValueError("The point is out of the valid range."))
             ELSE IF point.val \in Range(index)
             THEN Return(ts, Some(get_loc(index, point.val)))
             ELSE IF after
             THEN Return(ts, Some(first_after(index, point.val)))
             ELSE Return(ts, Some(first_before(index, point.val)))
        ELSE Raise(ts, TypeError("point needs to be either float, int or pd.Timestamp"))

\* split with the shift 1 for every type of split_point.
TimeSeries_split_shift_one(ts, split_point, after) ==
    LET r == get_index_at_point(ts, split_point, after)
    IN  IF r.err # NoErr THEN r
        ELSE LET k == r.ret[1] + 1
             IN  Return(ts, Some(<<TimeSeries__init__(iloc(ts.data, 0, k), ts.freq),
                                   TimeSeries__init__(iloc(ts.data, k, shape0(ts)), ts.freq)>>))

TimeSeries_split(ts, split_point, after) ==
    LET r == get_index_at_point(ts, split_point, after)
    IN  IF r.err # NoErr THEN r
        ELSE LET shift == IF split_point.type = "int" THEN 0 ELSE 1
                 k == r.ret[1] + shift
             IN  Return(ts, Some(<<TimeSeries__init__(iloc(ts.data, 0, k), ts.freq),
                                   TimeSeries__init__(iloc(ts.data, k, shape0(ts)), ts.freq)>>))

\* pd.concat(frames, axis=0): the rows of the frames one after the other,
\* over the union of their columns.
pd_concat_rows(frames) ==
    LET cols == UNION { DOMAIN frames[i].data : i \in DOMAIN frames }
        RECURSIVE rows(_, _)
        rows(c, i) ==
            IF i > Len(frames) THEN <<>>
            ELSE (IF c \in DOMAIN frames[i].data THEN frames[i].data[c]
                  ELSE [j \in DOMAIN frames[i].index |-> NaNCell]) \o rows(c, i + 1)
        RECURSIVE labels(_)
        labels(i) == IF i > Len(frames) THEN <<>> ELSE frames[i].index \o labels(i + 1)
    IN  DataFrame(frames[1].kind, labels(1), [c \in cols |-> rows(c, 1)])

\* pd.concat(frames, axis=1): the columns of the frames side by side, over
\* the union of their indexes.
pd_concat_columns(frames) ==
    LET index == Sorted(UNION { Range(frames[i].index) : i \in DOMAIN frames })
        cols == UNION { DOMAIN frames[i].data : i \in DOMAIN frames }
        owner(c) == CHOOSE i \in DOMAIN frames : c \in DOMAIN frames[i].data
    IN  DataFrame(frames[1].kind, index,
                  [c \in cols |-> df_reindex(frames[owner(c)], index).data[c]])

duplicated(seq) == \E i \in DOMAIN seq, j \in DOMAIN seq : i # j /\ seq[i] = seq[j]

RECURSIVE SumCard(_, _)
SumCard(frames, i) ==
    IF i > Len(frames) THEN 0
    ELSE Cardinality(DOMAIN frames[i].data) + SumCard(frames, i + 1)

\* concat that does not look for duplicated values in the time column.
TimeSeries_concat_keep_duplicated(tss, axis) ==
    LET frames == [i \in DOMAIN tss |-> tss[i].data]
    IN  IF Cardinality({ tss[i].freq : i \in DOMAIN tss }) # 1
        THEN Raise(tss, ValueError("Failed to concatenate, the freqs of TimeSeries objects are not consistent ."))
        ELSE IF axis = 0
        THEN Return(tss, Some(TimeSeries__init__(pd_concat_rows(frames), tss[1].freq)))
        ELSE IF axis = 1
        THEN IF SumCard(frames, 1) # Cardinality(DOMAIN pd_concat_columns(frames).data)
             THEN Raise(tss, ValueError("Failed to concatenate, duplicated column names found."))
             ELSE Return(tss, Some(TimeSeries__init__(pd_concat_columns(frames), tss[1].freq)))
        ELSE Raise(tss, ValueError("Failed to concatenate, invalid axis"))

TimeSeries_concat(tss, axis) ==
    LET frames == [i \in DOMAIN tss |-> tss[i].data]
    IN  IF Cardinality({ tss[i].freq : i \in DOMAIN tss }) # 1
        THEN Raise(tss, ValueError("Failed to concatenate, the freqs of TimeSeries objects are not consistent ."))
        ELSE IF axis = 0
        THEN IF duplicated(pd_concat_rows(frames).index)
             THEN Raise(tss, ValueError("Failed to concatenate, duplicated values found in the time column."))
             ELSE Return(tss, Some(TimeSeries__init__(pd_concat_rows(frames), tss[1].freq)))
        ELSE IF axis = 1
        THEN IF SumCard(frames, 1) # Cardinality(DOMAIN pd_concat_columns(frames).data)
             THEN Raise(tss, ValueError("Failed to concatenate, duplicated column names found."))
             ELSE Return(tss, Some(TimeSeries__init__(pd_concat_columns(frames), tss[1].freq)))
        ELSE Raise(tss, ValueError("Failed to concatenate, invalid axis"))

(***************************************************************************)
(* The state machine of one TimeSeries: SpecSeries.                        *)
(***************************************************************************)
\* The last time of the longest axis.
LastTime == 1 + (MaxRows - 1) * MaxStep

Points ==
    { Point("float", k) : k \in (0 - 1)..(Den + 1) }
    \cup { Point("int", k) : k \in (0 - 1)..MaxRows }
    \cup { Point(type, t) : type \in {"Timestamp", "str"}, t \in (0 - 1)..(LastTime + 1) }
    \cup { Point("list", 0) }

NoPoint == Point("None", 0)

SeriesCall(op, point, after, axis) ==
    [op |-> op, point |-> point, after |-> after, axis |-> axis]

\* The object takes a call when it has been built: by the loader, or as one
\* of the two TimeSeries that split returned.
Built == call.op \in {"load_from_dataframe", "half"}

InitSeries ==
    /\ self \in SeriesInputs
    /\ call = SeriesCall("load_from_dataframe", NoPoint, TRUE, 0)
    /\ err = NoErr
    /\ ret = None

GetIndexAtPoint ==
    /\ Built
    /\ \E point \in Points, after \in BOOLEAN :
        LET r == get_index_at_point(self, point, after)
        IN  /\ call' = SeriesCall("get_index_at_point", point, after, 0)
            /\ err' = r.err
            /\ ret' = r.ret
            /\ UNCHANGED self

Split ==
    /\ Built
    /\ \E point \in Points, after \in BOOLEAN :
        LET r == TimeSeries_split(self, point, after)
        IN  /\ call' = SeriesCall("split", point, after, 0)
            /\ err' = r.err
            /\ ret' = r.ret
            /\ UNCHANGED self

\* The caller goes on with one of the two TimeSeries that split returned.
TakeHalf ==
    /\ call.op = "split"
    /\ err = NoErr
    /\ \E h \in 1..2 :
        /\ self' = ret[1][h]
        /\ call' = SeriesCall("half", NoPoint, TRUE, 0)
        /\ err' = NoErr
        /\ ret' = None

\* TimeSeries.concat of the two TimeSeries that split returned, left then
\* right.
ConcatHalves ==
    /\ call.op = "split"
    /\ err = NoErr
    /\ \E axis \in 0..2 :
        LET r == TimeSeries_concat(ret[1], axis)
        IN  /\ call' = SeriesCall("concat_halves", call.point, call.after, axis)
            /\ err' = r.err
            /\ ret' = r.ret
            /\ UNCHANGED self

\* The TimeSeries the object is concatenated with: the inputs, and the ones
\* with the column b alone.
ConcatInputs ==
    SeriesInputs
    \cup { RegularSeries(kind, {"b"}, start, step, n) :
             kind \in IndexKinds, start \in 0..1, step \in 1..MaxStep, n \in 1..MaxRows }

\* The record of a call of concat: the list tss as it was passed, and the
\* place of the object in it (1 when `after`, else 2).
ConcatCall(tss, first, axis) ==
    [op |-> "concat", point |-> NoPoint, after |-> first, axis |-> axis, tss |-> tss]

\* TimeSeries.concat of the object and another TimeSeries, in either order.
Concat ==
    /\ Built
    /\ \E other \in ConcatInputs, axis \in 0..2, first \in BOOLEAN :
        LET tss == IF first THEN <<self, other>> ELSE <<other, self>>
            r == TimeSeries_concat(tss, axis)
        IN  /\ call' = ConcatCall(tss, first, axis)
            /\ err' = r.err
            /\ ret' = r.ret
            /\ self' = r.self[IF first THEN 1 ELSE 2]

(***************************************************************************)
(* TimeSeries.__getitem__                                                  *)
(***************************************************************************)
KeyError(m) == [cls |-> "KeyError", msg |-> m]

\* A key: a slice (start and stop are None or an int, step an int), a
\* pd.RangeIndex or a pd.DatetimeIndex (its labels, and its step or freq:
\* a pd.DatetimeIndex built from a list of times has the freq None), or a
\* value of another type.
SliceKey(start, stop, step) ==
    [type |-> "slice", start |-> start, stop |-> stop, step |-> step]
IndexKey(type, labels, freq) == [type |-> type, labels |-> labels, freq |-> freq]

\* The 0-based positions that a slice selects among n rows; a slice with
\* a negative step has neither start nor stop.
slice_positions(n, key) ==
    IF key.step > 0
    THEN LET clamp(k) == IF k > n THEN n ELSE k
             lo == IF key.start = None THEN 0 ELSE clamp(key.start[1])
             hi == IF key.stop = None THEN n ELSE clamp(key.stop[1])
             count == IF hi > lo THEN (hi - lo + key.step - 1) \div key.step ELSE 0
         IN  [j \in 1..count |-> lo + (j - 1) * key.step]
    ELSE LET back == 0 - key.step
         IN  [j \in 1..((n + back - 1) \div back) |-> n - 1 - (j - 1) * back]

\* self._data[key] for a slice: the rows at the positions, in their order.
df_take(df, positions) ==
    [df EXCEPT !.index = [j \in DOMAIN positions |-> df.index[positions[j] + 1]],
               !.data = [c \in DOMAIN df.data |->
                            [j \in DOMAIN positions |-> df.data[c][positions[j] + 1]]]]

TimeSeries__getitem__(ts, key) ==
    IF key.type = "DatetimeIndex"
    THEN IF ts.data.kind # "DatetimeIndex"
         THEN Raise(ts, ValueError("the key is of the type pd.DatetimeIndex"))
         ELSE IF ~(Range(key.labels) \subseteq Range(ts.data.index))
         THEN Raise(ts, KeyError("not in index"))
         ELSE Return(ts, Some(TimeSeries__init__(df_reindex(ts.data, key.labels), key.freq)))
    ELSE IF key.type = "RangeIndex"
    THEN IF ts.data.kind # "RangeIndex"
         THEN Raise(ts, ValueError("the key is of the type pd.RangeIndex"))
         ELSE IF ~(Range(key.labels) \subseteq Range(ts.data.index))
         THEN Raise(ts, KeyError("not in index"))
         ELSE Return(ts, Some(TimeSeries__init__(df_reindex(ts.data, key.labels), key.freq)))
    ELSE IF key.type = "slice"
    THEN Return(ts, Some(TimeSeries__init__(
            df_take(ts.data, slice_positions(shape0(ts), key)), ts.freq)))
    ELSE Raise(ts, ValueError("Invalid type of key"))

\* The keys: slices with and without bounds, forward with the steps
\* 1..MaxStep and backward with the step -1; pd.RangeIndex and
\* pd.DatetimeIndex of 0..2 labels with the steps 1..MaxStep;
\* pd.DatetimeIndex built from lists of times; a list.
Keys ==
    { SliceKey(start, stop, step) :
        start \in {None, Some(1)}, stop \in {None, Some(2)}, step \in 1..MaxStep }
    \cup { SliceKey(None, None, 0 - 1) }
    \cup { IndexKey("RangeIndex", RangeIndex(start, step, count), IntFreq(step)) :
             start \in 0..1, step \in 1..MaxStep, count \in 0..2 }
    \cup { IndexKey("DatetimeIndex", RangeIndex(start, step, count), StrFreq(step)) :
             start \in 0..1, step \in 1..MaxStep, count \in 0..2 }
    \cup { IndexKey("DatetimeIndex", labels, NoneFreq) :
             labels \in {<<0>>, <<0, 1>>, <<1, 0>>, <<0, 2>>} }
    \cup { IndexKey("list", <<>>, NoneFreq) }

GetItemCall(key) ==
    [op |-> "__getitem__", point |-> NoPoint, after |-> TRUE, axis |-> 0, key |-> key]

GetItemSeries ==
    /\ Built
    /\ \E key \in Keys :
        LET r == TimeSeries__getitem__(self, key)
        IN  /\ call' = GetItemCall(key)
            /\ err' = r.err
            /\ ret' = r.ret
            /\ self' = r.self

NextSeries ==
    \/ GetIndexAtPoint
    \/ Split
    \/ TakeHalf
    \/ ConcatHalves
    \/ Concat
    \/ GetItemSeries

SpecSeries == InitSeries /\ [][NextSeries]_vars

(***************************************************************************)
(* The claims on one TimeSeries.                                           *)
(***************************************************************************)
\* C14: for every TimeSeries and every split point that split accepts, the
\* concat along the time axis of the two TimeSeries it returned, left then
\* right, returns a TimeSeries with the index, the columns, the cells and
\* the freq of the original.
C14_SplitConcat ==
    (call.op = "concat_halves" /\ call.axis = 0) => (err = NoErr /\ ret = Some(self))

\* Three rows split at the int point 1 and put together again.
C14_Witness ==
    /\ call.op = "concat_halves"
    /\ call.axis = 0
    /\ call.point = Point("int", 1)
    /\ shape0(self) = MaxRows
    /\ self.data.kind = "RangeIndex"
    /\ ret = Some(self)

\* get_index_at_point was called with a pd.Timestamp or a str on a
\* DatetimeIndex with rows.
TimestampCall ==
    /\ call.op = "get_index_at_point"
    /\ call.point.type \in {"Timestamp", "str"}
    /\ self.data.kind = "DatetimeIndex"
    /\ shape0(self) > 0

\* C15: get_index_at_point of a timestamp that is a time of the
\* DatetimeIndex returns the position of that time, and returns the same
\* for after = True and after = False.
C15_ExactPoint ==
    (TimestampCall /\ call.point.val \in Range(self.data.index)) =>
        /\ err = NoErr
        /\ ret # None
        /\ ret[1] + 1 \in DOMAIN self.data.index
        /\ self.data.index[ret[1] + 1] = call.point.val
        /\ get_index_at_point(self, call.point, ~call.after).ret = ret

\* The last time of a DatetimeIndex of period 2, with after = False.
C15_Witness ==
    /\ TimestampCall
    /\ self.freq = StrFreq(2)
    /\ shape0(self) = MaxRows
    /\ call.point = Point("Timestamp", end_time(self))
    /\ ~call.after
    /\ ret = Some(MaxRows - 1)

\* get_index_at_point(val / Den) raised e or returned r as the claim says
\* for a TimeSeries of n rows.
FractionOk(n, val, e, r) ==
    IF 0 <= val /\ val <= Den
    THEN /\ e = NoErr
         /\ r # None
         /\ r[1] * Den <= (n - 1) * val
         /\ (n - 1) * val < (r[1] + 1) * Den
         /\ val = 0 => r[1] = 0
         /\ val = Den => r[1] = n - 1
         /\ r[1] \in 0..(n - 1)
    ELSE e.cls = "ValueError"

\* C16: for a float point p with 0.0 <= p <= 1.0, get_index_at_point
\* returns floor((rows - 1) * p): row 0 for 0.0, row rows - 1 for 1.0, always
\* a position of a row; a float point outside [0.0, 1.0] raises ValueError.
C16_Fraction ==
    (call.op = "get_index_at_point" /\ call.point.type = "float") =>
        FractionOk(shape0(self), call.point.val, err, ret)

\* The point 1.0 on a TimeSeries without rows has returned -1.
C16_Witness ==
    /\ call.op = "get_index_at_point"
    /\ call.point = Point("float", Den)
    /\ shape0(self) = 0
    /\ err = NoErr
    /\ ret = Some(0 - 1)

\* C16 on the TimeSeries that have rows.
C16_FractionWithRows ==
    (call.op = "get_index_at_point" /\ call.point.type = "float" /\ shape0(self) > 0) =>
        FractionOk(shape0(self), call.point.val, err, ret)

\* C17: for a timestamp within [start_time, end_time] that is no time of
\* the DatetimeIndex, get_index_at_point returns the position of the
\* smallest time greater than it when after is True and of the largest
\* time smaller than it when after is False; a timestamp outside
\* [start_time, end_time] raises ValueError.
C17_NearestPoint ==
    TimestampCall =>
        LET t == call.point.val
            index == self.data.index
        IN  IF t < start_time(self) \/ t > end_time(self)
            THEN err.cls = "ValueError"
            ELSE t \notin Range(index) =>
                    /\ err = NoErr
                    /\ ret # None
                    /\ ret[1] + 1 \in DOMAIN index
                    /\ call.after =>
                        index[ret[1] + 1] = SetMin({ u \in Range(index) : u > t })
                    /\ ~call.after =>
                        index[ret[1] + 1] = SetMax({ u \in Range(index) : u < t })

\* A timestamp between the first and the second time of three, with
\* after = True.
C17_Witness ==
    /\ TimestampCall
    /\ self.freq = StrFreq(2)
    /\ shape0(self) = MaxRows
    /\ call.point = Point("Timestamp", start_time(self) + 1)
    /\ call.after
    /\ ret = Some(1)

(***************************************************************************)
(* TimeSeries.load_from_dataframe on its time column: SpecLoad.            *)
(*                                                                         *)
(* The input is the time column in the order of the input rows             *)
(* (time_col_vals), its dtype and the freq argument; the i-th input row    *)
(* holds Cell(i) in its one value column.                                  *)
(***************************************************************************)
\* freq given as a float: val is its integer value (0 for 0.0).
FloatFreq(n) == [type |-> "float", val |-> n]

\* The dtypes of the time column: integer, object or datetime64, and a
\* dtype that is none of them.
TimeDtypes == {"integer", "datetime64", "float64"}

\* The largest time value of an input.
MaxTime == (MaxRows - 1) * MaxStep

\* `if freq:` for the freq argument.
freq_truthy(freq) ==
    /\ freq.type # "None"
    /\ freq.type \in {"int", "float"} => freq.val # 0

\* series_data.set_index(time_index): the i-th label keys the i-th row.
set_index(time_index) ==
    DataFrame("index", time_index, [c \in {"a"} |-> [i \in DOMAIN time_index |-> Cell(i)]])

\* series_data.sort_index(): the rows in the ascending order of their
\* labels.
sort_index(df) == df_reindex(df, Sorted(Range(df.index)))

\* pd.infer_freq(time_index): the period of an ascending regular index of
\* at least three times ("None" otherwise; with fewer than three times
\* pandas raises ValueError, which "short" stands for).
infer_freq(time_index) ==
    LET n == Len(time_index)
        step == time_index[2] - time_index[1]
    IN  IF n < 3 THEN [type |-> "short", val |-> 0]
        ELSE IF step >= 1 /\ \A i \in 1..(n - 1) : time_index[i + 1] - time_index[i] = step
        THEN StrFreq(step)
        ELSE NoneFreq

load_from_dataframe(time_col_vals, dtype, freq0) ==
    LET input == [time |-> time_col_vals, dtype |-> dtype, freq |-> freq0]
        n == Len(time_col_vals)
    IN  IF duplicated(time_col_vals)
        THEN Raise(input, ValueError("duplicated values in the time column!"))
        ELSE IF dtype = "integer"
        THEN IF freq_truthy(freq0) /\ ~(freq0.type = "int" /\ freq0.val >= 1)
             THEN Raise(input, ValueError("The type of freq should be int when the type of time_col is RangeIndex"))
             ELSE LET freq == IF freq_truthy(freq0) THEN freq0.val ELSE 1
                      start_idx == SetMin(Range(time_col_vals))
                      stop_idx == SetMax(Range(time_col_vals)) + freq
                  IN  IF (stop_idx - start_idx) % freq # 0
                         \/ (stop_idx - start_idx) \div freq # n
                      THEN Raise(input, ValueError("The number of rows doesn't match with the RangeIndex!"))
                      ELSE Return(input, Some(TimeSeries__init__(
                              sort_index([set_index(RangeIndex(start_idx, freq, n))
                                              EXCEPT !.kind = "RangeIndex"]),
                              IntFreq(freq))))
        ELSE IF dtype = "datetime64"
        THEN IF freq_truthy(freq0) /\ freq0.type # "str"
             THEN Raise(input, ValueError("The type of freq should be str when the type of time_col is DatetimeIndex."))
             ELSE LET freq == IF freq_truthy(freq0) THEN freq0 ELSE infer_freq(time_col_vals)
                  IN  IF freq.type = "short"
                      THEN Raise(input, ValueError("Need at least 3 dates to infer frequency"))
                      ELSE IF freq.type = "None"
                      THEN Raise(input, ValueError("Failed to infer the freq. A valid freq is required."))
                      ELSE Return(input, Some(TimeSeries__init__(
                              sort_index([set_index(time_col_vals)
                                              EXCEPT !.kind = "DatetimeIndex"]),
                              freq)))
        ELSE Raise(input, ValueError("The type of time_col is invalid."))

\* The freq arguments.
FreqInputs ==
    {NoneFreq}
    \cup { IntFreq(k) : k \in (0 - 1)..MaxStep }
    \cup { StrFreq(k) : k \in 1..MaxStep }
    \cup { FloatFreq(k) : k \in 0..1 }

\* The time columns: 1..MaxRows time values in any order, repeated ones
\* included.
TimeColumns == UNION { [1..n -> 0..MaxTime] : n \in 1..MaxRows }

\* A descending time column of at least three values.
Descending(time) ==
    Len(time) >= 3 /\ \A i \in 1..(Len(time) - 1) : time[i + 1] < time[i]

\* The inputs of the loader.  A descending datetime column is given with
\* its freq.
LoadInputs ==
    { input \in [time : TimeColumns, dtype : TimeDtypes, freq : FreqInputs] :
        ~(input.dtype = "datetime64" /\ ~freq_truthy(input.freq) /\ Descending(input.time)) }

InitLoad ==
    /\ self \in LoadInputs
    /\ call = SeriesCall("input", NoPoint, TRUE, 0)
    /\ err = NoErr
    /\ ret = None

Load ==
    /\ call.op = "input"
    /\ LET r == load_from_dataframe(self.time, self.dtype, self.freq)
       IN  /\ call' = SeriesCall("load_from_dataframe", NoPoint, TRUE, 0)
           /\ err' = r.err
           /\ ret' = r.ret
           /\ UNCHANGED self

NextLoad == Load

SpecLoad == InitLoad /\ [][NextLoad]_vars

(***************************************************************************)
(* The claims on the loader.                                               *)
(***************************************************************************)
\* load_from_dataframe was called on an integer time column and returned.
LoadedInteger ==
    /\ call.op = "load_from_dataframe"
    /\ self.dtype = "integer"
    /\ err = NoErr

\* The time values are exactly the grid from their minimum to their
\* maximum with the step given.
OnGrid(time, step) ==
    LET lo == SetMin(Range(time))
        hi == SetMax(Range(time))
    IN  /\ (hi - lo) % step = 0
        /\ Range(time) = { lo + k * step : k \in 0..((hi - lo) \div step) }
        /\ Len(time) = (hi + step - lo) \div step

\* C18: load_from_dataframe on integer time values returns only if the set
\* of time values is {min, min + step, ..., max}, every grid point present
\* and the number of rows (max + step - min) / step; an input with a gap,
\* an off-grid value or another number of rows raises.
C18_Contiguous ==
    LoadedInteger => OnGrid(self.time, ret[1].freq.val)

\* The time values 0, 1, 4 were loaded with freq 2.
C18_Witness ==
    /\ LoadedInteger
    /\ self.time = <<0, 1, 2 * MaxStep>>
    /\ self.freq = IntFreq(MaxStep)
    /\ ret[1].data.index = <<0, MaxStep, 2 * MaxStep>>

\* C18 for the step 1.
C18_ContiguousStepOne ==
    (LoadedInteger /\ ret[1].freq.val = 1) => OnGrid(self.time, 1)

\* C19: after load_from_dataframe returned, the index of the TimeSeries is
\* ascending and, for every input row, the row of the TimeSeries at the
\* time value of the input row holds the cells of that input row, whatever
\* the order of the input rows, for integer and datetime time values.
C19_KeyedAndSorted ==
    (call.op = "load_from_dataframe" /\ err = NoErr) =>
        LET index == ret[1].data.index
        IN  /\ \A j \in 1..(Len(index) - 1) : index[j] < index[j + 1]
            /\ \A i \in DOMAIN self.time :
                \E j \in DOMAIN index :
                    /\ index[j] = self.time[i]
                    /\ \A c \in DOMAIN ret[1].data.data : ret[1].data.data[c][j] = Cell(i)

\* The integer time values 1, 0 were loaded: the row given with time 1 is
\* now the row of time 0.
C19_Witness ==
    /\ LoadedInteger
    /\ self.time = <<1, 0>>
    /\ ret[1].data.index = <<0, 1>>
    /\ ret[1].data.data["a"] = <<Cell(1), Cell(2)>>

\* C19 for the inputs that load keys right: the datetime time values that
\* are on the grid of the freq, and the ascending integer time values.
C19_KeyedAndSortedOnGrid ==
    (/\ call.op = "load_from_dataframe"
     /\ err = NoErr
     /\ \/ self.dtype = "datetime64" /\ OnGrid(self.time, ret[1].freq.val)
        \/ /\ self.dtype = "integer"
           /\ OnGrid(self.time, ret[1].freq.val)
           /\ \A i \in 1..(Len(self.time) - 1) : self.time[i] < self.time[i + 1])
    => C19_KeyedAndSorted

\* C20: load_from_dataframe on integer time values with a freq supplied
\* that is zero, negative or no int raises, and the step is the default 1
\* only when no freq is supplied.
C20_PositiveIntegerFreq ==
    (call.op = "load_from_dataframe" /\ self.dtype = "integer") =>
        /\ (self.freq.type # "None" /\ ~(self.freq.type = "int" /\ self.freq.val >= 1))
                => err # NoErr
        /\ (err = NoErr /\ self.freq.type # "None") => ret[1].freq = self.freq

\* The time values 0, 1 were loaded with freq 0 and the TimeSeries has the
\* freq 1.
C20_Witness ==
    /\ LoadedInteger
    /\ self.time = <<0, 1>>
    /\ self.freq = IntFreq(0)
    /\ ret[1].freq = IntFreq(1)

\* C20 for every freq but 0 and 0.0.
C20_PositiveIntegerFreqNonZero ==
    (self.freq.type # "None" => self.freq.val # 0) => C20_PositiveIntegerFreq

(***************************************************************************)
(* TSDataset.split: SpecSplit.                                             *)
(*                                                                         *)
(* `self` is a TSDataset whose TimeSeries keep their time index.           *)
(***************************************************************************)
\* The return statement of split: two TSDataset built on the two targets
\* and the two observed_cov, each with self._known_cov and
\* self._static_cov.
TSDataset_split_return(p, train_target, test_target, train_post_cov, test_post_cov) ==
    LET train == TSDataset__init__(Some(train_target), train_post_cov,
                                   p.known_cov, p.static_cov)
        test == TSDataset__init__(Some(test_target), test_post_cov,
                                  p.known_cov, p.static_cov)
    IN  IF train.err # NoErr THEN Raise(p, train.err)
        ELSE IF test.err # NoErr THEN Raise(p, test.err)
        ELSE Return(p, Some(<<train.self, test.self>>))

\* train_target.end_time as the point handed to self._observed_cov.split:
\* an int on a RangeIndex, a pd.Timestamp on a DatetimeIndex.
time_point_split(train_target) ==
    Point(IF train_target.data.kind = "RangeIndex" THEN "int" ELSE "Timestamp",
          end_time(train_target))

\* split that cuts known_cov as it cuts observed_cov.
TSDataset_split_known(p, split_point, after) ==
    IF ~Truthy(p.target)
    THEN Raise(p, ValueError("Failed to split, the TSDataset's target is None."))
    ELSE LET t == TimeSeries_split(p.target[1], split_point, after)
         IN  IF t.err # NoErr THEN Raise(p, t.err)
             ELSE IF shape0(t.ret[1][1]) = 0
             THEN Raise(p, IndexError("index -1 is out of bounds for axis 0 with size 0"))
             ELSE LET o == IF Truthy(p.observed_cov)
                           THEN TimeSeries_split(p.observed_cov[1],
                                                 time_point_split(t.ret[1][1]), after)
                           ELSE Return(p, None)
                      k == IF Truthy(p.known_cov)
                           THEN TimeSeries_split(p.known_cov[1],
                                                 time_point_split(t.ret[1][1]), after)
                           ELSE Return(p, None)
                  IN  IF o.err # NoErr THEN Raise(p, o.err)
                      ELSE IF k.err # NoErr THEN Raise(p, k.err)
                      ELSE TSDataset_split_return(
                              [p EXCEPT !.known_cov =
                                  IF k.ret = None THEN p.known_cov ELSE Some(k.ret[1][1])],
                              t.ret[1][1], t.ret[1][2],
                              IF o.ret = None THEN None ELSE Some(o.ret[1][1]),
                              IF o.ret = None THEN None ELSE Some(o.ret[1][2]))

TSDataset_split(p, split_point, after) ==
    IF ~Truthy(p.target)
    THEN Raise(p, ValueError("Failed to split, the TSDataset's target is None."))
    ELSE LET t == TimeSeries_split(p.target[1], split_point, after)
         IN  IF t.err # NoErr THEN Raise(p, t.err)
             ELSE IF shape0(t.ret[1][1]) = 0
             THEN Raise(p, IndexError("index -1 is out of bounds for axis 0 with size 0"))
             ELSE LET o == IF Truthy(p.observed_cov)
                           THEN TimeSeries_split(p.observed_cov[1],
                                                 time_point_split(t.ret[1][1]), after)
                           ELSE Return(p, None)
                  IN  IF o.err # NoErr THEN Raise(p, o.err)
                      ELSE TSDataset_split_return(p, t.ret[1][1], t.ret[1][2],
                              IF o.ret = None THEN None ELSE Some(o.ret[1][1]),
                              IF o.ret = None THEN None ELSE Some(o.ret[1][2]))

\* The arguments of the constructor of the TSDataset split is called on:
\* target and observed_cov each from a start and with a number of rows of
\* its own, known_cov one row longer than target, all of one index type and
\* step, each present or not, with or without static_cov.
SplitInputs ==
    UNION { { <<target, observed_cov, known_cov, static_cov>> :
                target \in {None} \cup
                    { Some(RegularSeries(kind, {"a"}, start, step, n)) :
                        start \in 0..1, n \in 1..MaxRows },
                observed_cov \in {None} \cup
                    { Some(RegularSeries(kind, {"b"}, start, step, n)) :
                        start \in 0..1, n \in 1..MaxRows },
                known_cov \in {None, Some(RegularSeries(kind, {"k"}, 0, step, MaxRows + 1))},
                static_cov \in {None, Some([s \in {"s"} |-> Orig])} } :
            kind \in IndexKinds, step \in 1..MaxStep }

\* The record of a call on a TSDataset: the object before the call is kept
\* in `before`.
SplitCall(op, point, after, before) ==
    [op |-> op, point |-> point, after |-> after, before |-> before]

\* The object takes a call of split when it has been built: by the
\* constructor, or as one of the two TSDataset that split returned.
BuiltDataset == call.op \in {"__init__", "half"} /\ err = NoErr

InitSplit ==
    /\ \E args \in SplitInputs :
        LET r == TSDataset__init__(args[1], args[2], args[3], args[4])
        IN  /\ self = r.self
            /\ err = r.err
    /\ call = SplitCall("__init__", NoPoint, TRUE, None)
    /\ ret = None

SplitDataset ==
    /\ BuiltDataset
    /\ \E point \in Points, after \in BOOLEAN :
        LET r == TSDataset_split(self, point, after)
        IN  /\ self' = r.self
            /\ call' = SplitCall("split", point, after, Some(self))
            /\ err' = r.err
            /\ ret' = r.ret

\* The caller goes on with one of the two TSDataset that split returned.
TakeDatasetHalf ==
    /\ call.op = "split"
    /\ err = NoErr
    /\ \E h \in 1..2 :
        /\ self' = ret[1][h]
        /\ call' = SplitCall("half", NoPoint, TRUE, None)
        /\ err' = NoErr
        /\ ret' = None

NextSplit ==
    \/ SplitDataset
    \/ TakeDatasetHalf

SpecSplit == InitSplit /\ [][NextSplit]_vars

(***************************************************************************)
(* The claims on TSDataset.split.                                          *)
(***************************************************************************)
\* split was called and returned its two TSDataset.
SplitReturned == call.op = "split" /\ err = NoErr

\* target and observed_cov of the TSDataset are present over the same time
\* index.
SameAxis(p) ==
    /\ p.target # None
    /\ p.observed_cov # None
    /\ p.target[1].data.index = p.observed_cov[1].data.index

\* The observed_cov of the two TSDataset are cut where their targets are.
ObservedBoundary(left, right) ==
    /\ left.observed_cov # None
    /\ right.observed_cov # None
    /\ shape0(left.observed_cov[1]) > 0
    /\ end_time(left.observed_cov[1]) = end_time(left.target[1])
    /\ IF shape0(right.target[1]) = 0
       THEN shape0(right.observed_cov[1]) = 0
       ELSE /\ shape0(right.observed_cov[1]) > 0
            /\ start_time(right.observed_cov[1]) = start_time(right.target[1])

\* C11: when split of a TSDataset whose target and observed_cov have the
\* same time index returns, the observed_cov of the first TSDataset ends at
\* the time its target ends at and the observed_cov of the second starts at
\* the time its target starts at, on a RangeIndex as on a DatetimeIndex, for
\* every split point.
C11_ObservedBoundary ==
    (SplitReturned /\ SameAxis(call.before[1])) => ObservedBoundary(ret[1][1], ret[1][2])

\* A split over a RangeIndex has returned a first TSDataset whose
\* observed_cov is shorter than its target.
C11_Witness ==
    /\ SplitReturned
    /\ SameAxis(call.before[1])
    /\ call.before[1].target[1].data.kind = "RangeIndex"
    /\ call.point.type = "float"
    /\ shape0(ret[1][1].target[1]) = 2
    /\ shape0(ret[1][1].observed_cov[1]) = 1
    /\ end_time(ret[1][1].observed_cov[1]) < end_time(ret[1][1].target[1])

\* C11 on a DatetimeIndex.
C11_ObservedBoundaryDatetime ==
    (/\ SplitReturned
     /\ SameAxis(call.before[1])
     /\ call.before[1].target[1].data.kind = "DatetimeIndex")
    => ObservedBoundary(ret[1][1], ret[1][2])

\* C12: split of a TSDataset without target raises ValueError; when split
\* returns, each of the two TSDataset holds the whole known_cov and the
\* whole static_cov of the TSDataset it was called on, and that TSDataset
\* is as it was before the call.
C12_KnownNotSplit ==
    call.op = "split" =>
        /\ call.before[1].target = None => err.cls = "ValueError"
        /\ err = NoErr =>
            /\ \A h \in 1..2 :
                /\ ret[1][h].known_cov = call.before[1].known_cov
                /\ ret[1][h].static_cov = call.before[1].static_cov
            /\ self = call.before[1]

\* A TSDataset with target, observed_cov, known_cov and static_cov over a
\* DatetimeIndex was split in the middle of its target.
C12_Witness ==
    /\ SplitReturned
    /\ SameAxis(self)
    /\ self.target[1].data.kind = "DatetimeIndex"
    /\ self.static_cov # None
    /\ self.known_cov # None
    /\ shape0(self.known_cov[1]) = MaxRows + 1
    /\ shape0(ret[1][1].target[1]) = 1
    /\ shape0(ret[1][2].target[1]) = MaxRows - 1
    /\ ret[1][1].known_cov = self.known_cov
    /\ ret[1][2].static_cov = self.static_cov

(***************************************************************************)
(* The objects that the TSDataset returned by split share: SpecShared.     *)
(*                                                                         *)
(* `self` is the tuple of the TSDataset split was called on and the two    *)
(* TSDataset it returned.  The three hold the same known_cov object and    *)
(* the same static_cov dict: split passes self._known_cov and              *)
(* self._static_cov to both constructors, and the constructor stores what  *)
(* it is passed.  The targets and the observed_cov of the two are objects  *)
(* of their own (iloc, asfreq).                                            *)
(***************************************************************************)
\* self.data.iloc[:k] and self.data.iloc[k:] of a TimeSeries given by its
\* columns and its number of rows.
head_rows(ts, k) ==
    LET n == IF k > ts.len THEN ts.len ELSE k
    IN  [ts EXCEPT !.len = n,
                   !.data = [c \in columns(ts) |->
                                Column(SubSeq(ts.data[c].cells, 1, n), ts.data[c].dtype)]]

tail_rows(ts, k) ==
    LET n == IF k > ts.len THEN ts.len ELSE k
    IN  [ts EXCEPT !.len = ts.len - n,
                   !.data = [c \in columns(ts) |->
                                Column(SubSeq(ts.data[c].cells, n + 1, ts.len),
                                       ts.data[c].dtype)]]

\* The object a known_cov field referred to, after a call that left the
\* field as `after`: set_column, drop and astype change the object in
\* place; drop sets the field to None once the object has no column left.
known_cov_object(before, after) ==
    IF after # None THEN after
    ELSE Some([before[1] EXCEPT !.data = [c \in {} |-> Column(<<>>, "")]])

\* The dict a static_cov field referred to, likewise.
static_cov_object(before, after) ==
    IF after # None THEN after ELSE Some([c \in {} |-> Orig])

\* The three TSDataset after a call on the one at position on that left it
\* as q.
shared_update(panels, on, q) ==
    [Y \in 1..3 |->
        IF Y = on THEN q
        ELSE [panels[Y] EXCEPT
                !.known_cov = IF panels[on].known_cov = None THEN @
                              ELSE known_cov_object(panels[on].known_cov, q.known_cov),
                !.static_cov = IF panels[on].static_cov = None THEN @
                               ELSE static_cov_object(panels[on].static_cov, q.static_cov)]]

\* The record of a call on one of the three TSDataset; the three before the
\* call are kept in `before`.
SharedCall(op, on, before) == [op |-> op, on |-> on, before |-> before]

\* The state after split has returned: target is cut after its first rows
\* rows, observed_cov (over a DatetimeIndex) at the same time.
InitShared ==
    \E t \in OptTimeSeriesInputs, o \in OptTimeSeriesInputs,
       k \in OptTimeSeriesInputs, s \in OptDictInputs, rows \in 1..MaxLen :
        LET c == TSDataset__init__(t, o, k, s)
            p == c.self
            r == TSDataset_split_return(p,
                    head_rows(p.target[1], rows), tail_rows(p.target[1], rows),
                    IF Truthy(p.observed_cov)
                    THEN Some(head_rows(p.observed_cov[1], rows)) ELSE None,
                    IF Truthy(p.observed_cov)
                    THEN Some(tail_rows(p.observed_cov[1], rows)) ELSE None)
        IN  /\ c.err = NoErr
            /\ Truthy(p.target)
            /\ r.err = NoErr
            /\ self = <<p, r.ret[1][1], r.ret[1][2]>>
            /\ call = SharedCall("split", 0, None)
            /\ err = NoErr
            /\ ret = None

DoShared(op, on, r) ==
    /\ self' = shared_update(self, on, r.self)
    /\ call' = SharedCall(op, on, Some(self))
    /\ err' = r.err
    /\ ret' = r.ret

SetColumnShared ==
    /\ call.op = "split"
    /\ \E on \in 1..3, c \in Names, v \in Values, t \in Types :
        DoShared("set_column", on, set_column(self[on], c, v, t))

DropShared ==
    /\ call.op = "split"
    /\ \E on \in 1..3, cols \in ColumnLists :
        DoShared("drop", on, drop(self[on], cols))

AstypeShared ==
    /\ call.op = "split"
    /\ \E on \in 1..3, type \in AstypeInputs :
        DoShared("astype", on, astype(self[on], type))

NextShared ==
    \/ SetColumnShared
    \/ DropShared
    \/ AstypeShared

SpecShared == InitShared /\ [][NextShared]_vars

(***************************************************************************)
(* The claim on shared state.                                              *)
(***************************************************************************)
\* A column write, a drop or a cast was made on one of the three TSDataset.
Mutated == call.op \in {"set_column", "drop", "astype"}

\* The TSDataset the call was not made on are as they were before it.
OthersUnchanged == \A Y \in 1..3 : Y # call.on => self[Y] = call.before[1][Y]

\* C13: after split, a set_column, a drop or an astype on one of the two
\* TSDataset returned (or on the TSDataset split was called on) changes
\* none of the other two, their known_cov and static_cov included.
C13_NoSharedState == Mutated => OthersUnchanged

\* set_column on the first TSDataset returned has written a column of
\* known_cov, and the TSDataset split was called on holds the written
\* column too.
C13_Witness ==
    /\ call.op = "set_column"
    /\ call.on = 2
    /\ err = NoErr
    /\ call.before[1][1].known_cov # None
    /\ \E c \in columns(call.before[1][1].known_cov[1]) :
        /\ call.before[1][1].known_cov[1].data[c].cells = <<Orig>>
        /\ self[1].known_cov[1].data[c].cells = <<Written>>
        /\ self[3].known_cov[1].data[c].cells = <<Written>>

\* C13 for the TSDataset without known_cov and static_cov.
C13_NoSharedStateOwnObjects ==
    (/\ Mutated
     /\ call.before[1][call.on].known_cov = None
     /\ call.before[1][call.on].static_cov = None)
    => OthersUnchanged

(***************************************************************************)
(* The claims on TimeSeries.concat, TimeSeries.split and the time index.   *)
(***************************************************************************)
\* The time values of all the TimeSeries of a list, one after the other.
AllTimes(tss) ==
    LET RECURSIVE labels(_)
        labels(i) == IF i > Len(tss) THEN <<>> ELSE tss[i].data.index \o labels(i + 1)
    IN  labels(1)

\* Two TimeSeries of the list have a column name in common.
SharedColumn(tss) ==
    \E i \in DOMAIN tss, j \in DOMAIN tss :
        i # j /\ columns(tss[i]) \cap columns(tss[j]) # {}

SeriesSplitReturned == call.op = "split" /\ err = NoErr /\ ret # None

\* The row that the split point names is a row of the TimeSeries: the row
\* at the position for an int, the row found by get_index_at_point for a
\* float, the row of that time for a pd.Timestamp or a str.
PointRowExists ==
    LET i == get_index_at_point(self, call.point, call.after).ret[1]
    IN  /\ i + 1 \in DOMAIN self.data.index
        /\ call.point.type \in {"Timestamp", "str"} =>
            call.point.val \in Range(self.data.index)

\* The time of the row that the split point names.
PointRowTime ==
    self.data.index[get_index_at_point(self, call.point, call.after).ret[1] + 1]

\* C24: for every type of split point (pd.Timestamp, str, float, int), when
\* the row the split point names is a row of the TimeSeries, that row is
\* in the first of the two TimeSeries that split returns.
C24_PointRowInFirst ==
    (SeriesSplitReturned /\ PointRowExists) =>
        PointRowTime \in Range(ret[1][1].data.index)

\* A TimeSeries of three rows was split at the int point 1: the row at
\* position 1 is the first row of the second TimeSeries.
C24_Witness ==
    /\ SeriesSplitReturned
    /\ call.point = Point("int", 1)
    /\ shape0(self) = MaxRows
    /\ shape0(ret[1][1]) = 1
    /\ start_time(ret[1][2]) = self.data.index[2]
    /\ PointRowTime = self.data.index[2]

\* C24 for the split points that are no int.
C24_PointRowInFirstNoInt ==
    (SeriesSplitReturned /\ PointRowExists /\ call.point.type # "int") =>
        PointRowTime \in Range(ret[1][1].data.index)

Increasing(ts) ==
    \A j \in 1..(shape0(ts) - 1) : ts.data.index[j] < ts.data.index[j + 1]

\* concat along the time axis was called and returned.
ConcatRowsReturned ==
    call.op \in {"concat", "concat_halves"} /\ call.axis = 0 /\ err = NoErr

\* C26: the time index of every TimeSeries returned by load_from_dataframe,
\* split, __getitem__ or concat with axis 0 is strictly increasing, without
\* a time that occurs twice, whatever the order of the TimeSeries in the
\* list passed to concat.
C26_IncreasingAxis ==
    /\ call.op = "load_from_dataframe" => Increasing(self)
    /\ SeriesSplitReturned => Increasing(ret[1][1]) /\ Increasing(ret[1][2])
    /\ (call.op = "__getitem__" /\ err = NoErr) => Increasing(ret[1])
    /\ ConcatRowsReturned => Increasing(ret[1])

\* concat with axis 0 of a TimeSeries over a RangeIndex and an earlier one,
\* the later first, has returned a TimeSeries whose index goes back.
C26_Witness ==
    /\ ConcatRowsReturned
    /\ call.op = "concat"
    /\ ~call.after
    /\ self.data.kind = "RangeIndex"
    /\ self.data.index = <<0>>
    /\ call.tss[1].data.index = <<1, 2>>
    /\ ret[1].data.index = <<1, 2, 0>>

\* C26 for load_from_dataframe, split, and concat over a DatetimeIndex.
C26_IncreasingAxisDatetime ==
    /\ call.op = "load_from_dataframe" => Increasing(self)
    /\ SeriesSplitReturned => Increasing(ret[1][1]) /\ Increasing(ret[1][2])
    /\ (ConcatRowsReturned /\ self.data.kind = "DatetimeIndex") => Increasing(ret[1])

\* The freq of the TimeSeries is the difference of every two consecutive
\* times of its index.
Spaced(ts) ==
    /\ ts.freq.type \in {"int", "str"}
    /\ \A j \in 1..(shape0(ts) - 1) :
        ts.data.index[j + 1] - ts.data.index[j] = ts.freq.val

\* C27: the freq of every TimeSeries returned by __getitem__ (with a
\* pd.DatetimeIndex, a pd.RangeIndex or a slice, the slices with a step
\* other than 1 included) or by concat with axis 0 is the difference of
\* every two consecutive times of its index, which has no gap.
C27_FreqIsSpacing ==
    ((call.op = "__getitem__" /\ err = NoErr) \/ ConcatRowsReturned) => Spaced(ret[1])

\* The slice [::2] of a TimeSeries over the RangeIndex 0, 1, 2 with freq 1
\* has the times 0, 2 and the freq 1.
C27_Witness ==
    /\ call.op = "__getitem__"
    /\ err = NoErr
    /\ call.key = SliceKey(None, None, 2)
    /\ self.freq = IntFreq(1)
    /\ self.data.index = <<0, 1, 2>>
    /\ ret[1].data.index = <<0, 2>>
    /\ ret[1].freq = IntFreq(1)

\* C27 for the TimeSeries returned with a str freq (over a DatetimeIndex).
C27_FreqIsSpacingDatetime ==
    (/\ (call.op = "__getitem__" /\ err = NoErr) \/ ConcatRowsReturned
     /\ ret[1].freq.type = "str")
    => Spaced(ret[1])

(***************************************************************************)
(* TSDataset.astype with the object before the call: SpecCast.             *)
(***************************************************************************)
\* The record of a call of astype: its argument and the object before the
\* call.
CastCall(type, before) == [op |-> "astype", type |-> type, before |-> before]

InitCast ==
    \E t \in OptTimeSeriesInputs, o \in OptTimeSeriesInputs,
       k \in OptTimeSeriesInputs, s \in OptDictInputs :
        LET r == TSDataset__init__(t, o, k, s)
        IN  /\ self = r.self
            /\ err = r.err
            /\ ret = r.ret
            /\ call = CastCall(<<>>, None)

Cast ==
    /\ err = NoErr
    /\ \E type \in AstypeInputs :
        LET r == astype(self, type)
        IN  /\ self' = r.self
            /\ err' = r.err
            /\ ret' = r.ret
            /\ call' = CastCall(type, Some(self))

NextCast == Cast

SpecCast == InitCast /\ [][NextCast]_vars

\* The dtype of the column c of the partition s of p.
Dtype(p, s, c) == p[s][1].data[c].dtype

\* The partitions of q are those of p, column by column and cell by cell,
\* but for the dtypes.
SameButDtypes(p, q) ==
    /\ q.static_cov = p.static_cov
    /\ q.freq = p.freq
    /\ \A s \in TimeVarying :
        /\ (q[s] = None) = (p[s] = None)
        /\ p[s] # None =>
            /\ columns(q[s][1]) = columns(p[s][1])
            /\ q[s][1].freq = p[s][1].freq
            /\ q[s][1].len = p[s][1].len
            /\ \A c \in columns(p[s][1]) : q[s][1].data[c].cells = p[s][1].data[c].cells

\* astype was called on a TSDataset built or cast without an error.
CastCalled == call.op = "astype" /\ call.before # None

SomePartition(p) == \E s \in TimeVarying : p[s] # None

\* C28: every object reached by the constructor and calls that all returned
\* has at least one of target, observed_cov and known_cov present; drop
\* never leaves the three absent.
C28_SomePartition == err = NoErr => SomePartition(self)

\* drop has returned and has left target, observed_cov and known_cov absent.
C28_Witness ==
    /\ call.op = "drop"
    /\ err = NoErr
    /\ ~SomePartition(self)

\* C28 for every call but drop: a call that returns leaves a time-varying
\* partition present when one was present.
C28_SomePartitionNoDrop ==
    [][(call'.op # "drop" /\ err' = NoErr /\ SomePartition(self)) =>
        SomePartition(self')]_vars

\* Every requested name is a key of static_cov.
StaticRead(p, cols) ==
    /\ cols # <<>>
    /\ Range(cols) \subseteq Cols(p, "static_cov")

\* C29: __getitem__ of distinct names that are keys of static_cov returns,
\* whether the target is present or not, and a __getitem__ that requests a
\* key of static_cov raises nothing but ValueError.
C29_StaticRead ==
    /\ (call.op = "__getitem__" /\ StaticRead(self, call.columns)
            /\ Cardinality(Range(call.columns)) = Len(call.columns)) =>
        (err = NoErr /\ ret # None /\ DOMAIN ret[1] = Range(call.columns))
    /\ (call.op = "__getitem__"
            /\ Range(call.columns) \cap Cols(self, "static_cov") # {}) =>
        (err = NoErr \/ err.cls = "ValueError")

\* The key b of static_cov is read from an object that holds observed_cov
\* and no target, and the read has raised AttributeError.
C29_Witness ==
    /\ call.op = "__getitem__"
    /\ call.columns = <<"b">>
    /\ Cols(self, "static_cov") = {"b"}
    /\ self.target = None
    /\ self.observed_cov # None
    /\ err.cls = "AttributeError"

\* C29 where the target is present.
C29_StaticReadWithTarget ==
    (call.op = "__getitem__" /\ StaticRead(self, call.columns)
        /\ Cardinality(Range(call.columns)) = Len(call.columns)
        /\ self.target # None) =>
        (err = NoErr /\ ret # None /\ DOMAIN ret[1] = Range(call.columns))

(***************************************************************************)
(* The claim on the points TSDataset.split accepts: SpecSplit              *)
(***************************************************************************)
\* The target of p is present and has rows.
NonEmptyTarget(p) == p.target # None /\ shape0(p.target[1]) > 0

\* split was called on a TSDataset with a non-empty target with a point that
\* get_index_at_point accepts on that target.
AcceptedPoint ==
    /\ call.op = "split"
    /\ NonEmptyTarget(call.before[1])
    /\ get_index_at_point(call.before[1].target[1], call.point, call.after).err = NoErr

\* The number of rows split leaves in the first target for an accepted point.
CutRows ==
    get_index_at_point(call.before[1].target[1], call.point, call.after).ret[1]
        + (IF call.point.type = "int" THEN 0 ELSE 1)

\* C30: split of a TSDataset with a non-empty target, with any point that
\* get_index_at_point accepts (the int 0 and the fraction 1.0 included),
\* returns two TSDataset and each has a non-empty target.
C30_SplitTotal ==
    AcceptedPoint =>
        /\ err = NoErr
        /\ NonEmptyTarget(ret[1][1])
        /\ NonEmptyTarget(ret[1][2])

\* split with the int 0 on a TSDataset whose target has rows and whose
\* observed_cov is absent has raised IndexError.
C30_Witness ==
    /\ AcceptedPoint
    /\ call.point = Point("int", 0)
    /\ call.before[1].observed_cov = None
    /\ err.cls = "IndexError"

\* split with the fraction 1.0 has returned a second TSDataset whose target
\* has no row.
C30_EmptySecond ==
    /\ AcceptedPoint
    /\ call.point = Point("float", Den)
    /\ err = NoErr
    /\ ret[1][2].target # None
    /\ shape0(ret[1][2].target[1]) = 0

\* C30 for the points that leave rows on both sides of the target, on a
\* TSDataset without observed_cov.
C30_SplitTotalInside ==
    (/\ AcceptedPoint
     /\ call.before[1].observed_cov = None
     /\ CutRows \in 1..(shape0(call.before[1].target[1]) - 1))
    => /\ err = NoErr
       /\ NonEmptyTarget(ret[1][1])
       /\ NonEmptyTarget(ret[1][2])

\* C30 for the points that leave rows on both sides of the target, on a
\* DatetimeIndex that target and observed_cov have in common.
C30_SplitTotalInsideDatetime ==
    (/\ AcceptedPoint
     /\ call.before[1].target[1].data.kind = "DatetimeIndex"
     /\ SameAxis(call.before[1])
     /\ CutRows \in 1..(shape0(call.before[1].target[1]) - 1))
    => /\ err = NoErr
       /\ NonEmptyTarget(ret[1][1])
       /\ NonEmptyTarget(ret[1][2])

(***************************************************************************)
(* TSDataset.concat: SpecConcat                                            *)
(***************************************************************************)
\* [ts.get_target() for ts in tss if ts.get_target() is not None], and the
\* same for known_cov and observed_cov: s names the partition.
partitions_present(tss, s) ==
    LET RECURSIVE present(_)
        present(i) ==
            IF i > Len(tss) THEN <<>>
            ELSE (IF tss[i][s] # None THEN <<tss[i][s][1]>> ELSE <<>>) \o present(i + 1)
    IN  present(1)

\* TimeSeries.concat(targets, axis) if len(targets) != 0 else None
concat_partition(tss, s, axis) ==
    LET present == partitions_present(tss, s)
    IN  IF Len(present) # 0
        THEN LET r == TimeSeries_concat(present, axis)
             IN  IF r.err # NoErr THEN Raise(tss, r.err) ELSE Return(tss, r.ret)
        ELSE Return(tss, None)

\* The dict the loop over ts.get_static_cov().items() builds when no key is
\* refused: each key with the value of the first TSDataset that has it.
static_cov_merged(tss) ==
    LET has(i, key) == tss[i].static_cov # None /\ key \in DOMAIN tss[i].static_cov[1]
        keys == UNION { DOMAIN tss[i].static_cov[1] :
                            i \in { j \in DOMAIN tss : tss[j].static_cov # None } }
        first(key) == SetMin({ i \in DOMAIN tss : has(i, key) })
    IN  [key \in keys |-> tss[first(key)].static_cov[1][key]]

\* A loop over the static_cov that refuses no key.
static_cov_refused_never(tss) == FALSE

\* raise_if_not(static_cov[key] == value, ...) raises for some key: a later
\* TSDataset has the key with a value other than the one stored.
static_cov_refused(tss) ==
    \E i \in DOMAIN tss :
        /\ tss[i].static_cov # None
        /\ \E key \in DOMAIN tss[i].static_cov[1] \cap DOMAIN static_cov_merged(tss) :
            static_cov_merged(tss)[key] # tss[i].static_cov[1][key]

TSDataset_concat(tss, axis) ==
    LET target == concat_partition(tss, "target", axis)
        known_cov == concat_partition(tss, "known_cov", axis)
        observed_cov == concat_partition(tss, "observed_cov", axis)
    IN  IF target.err # NoErr THEN target
        ELSE IF known_cov.err # NoErr THEN known_cov
        ELSE IF observed_cov.err # NoErr THEN observed_cov
        ELSE IF static_cov_refused(tss)
        THEN Raise(tss, ValueError("static cov key have diffent value! concat failed!"))
        ELSE LET r == TSDataset__init__(target.ret, observed_cov.ret, known_cov.ret,
                                        Some(static_cov_merged(tss)))
             IN  IF r.err # NoErr THEN Raise(tss, r.err) ELSE Return(tss, Some(r.self))

\* The arguments of the constructor of the TSDataset handed to concat: each
\* partition absent, or over one of two stretches of time; the target under
\* one of two column names; static_cov absent or with one key.
ConcatDatasetInputs ==
    UNION { { <<target, observed_cov, known_cov, static_cov>> :
                target \in {None, Some(RegularSeries(kind, {"a"}, 0, 1, 2)),
                            Some(RegularSeries(kind, {"a"}, 2, 1, 1)),
                            Some(RegularSeries(kind, {"c"}, 0, 1, 2))},
                observed_cov \in {None, Some(RegularSeries(kind, {"b"}, 0, 1, 2)),
                                  Some(RegularSeries(kind, {"b"}, 2, 1, 1))},
                known_cov \in {None, Some(RegularSeries(kind, {"k"}, 0, 1, 2))},
                static_cov \in {None, Some([s \in {"s"} |-> Orig]),
                                Some([s \in {"s"} |-> WrittenStr]),
                                Some([s \in {"t"} |-> Orig])} } :
            kind \in IndexKinds }

\* The record of a call of concat: the list of TSDataset and the axis.
ConcatDatasetCall(op, tss, axis) == [op |-> op, tss |-> tss, axis |-> axis]

InitConcat ==
    /\ \E args \in ConcatDatasetInputs :
        LET r == TSDataset__init__(args[1], args[2], args[3], args[4])
        IN  /\ self = r.self
            /\ err = r.err
    /\ call = ConcatDatasetCall("__init__", <<>>, 0)
    /\ ret = None

\* concat of the TSDataset and another one the constructor has built.
ConcatDataset ==
    /\ call.op = "__init__"
    /\ err = NoErr
    /\ \E args \in ConcatDatasetInputs, axis \in 0..2 :
        LET other == TSDataset__init__(args[1], args[2], args[3], args[4])
            tss == <<self, other.self>>
            r == TSDataset_concat(tss, axis)
        IN  /\ other.err = NoErr
            /\ self' = r.self[1]
            /\ call' = ConcatDatasetCall("concat", tss, axis)
            /\ err' = r.err
            /\ ret' = r.ret

NextConcat == ConcatDataset

SpecConcat == InitConcat /\ [][NextConcat]_vars

(***************************************************************************)
(* The claim on TSDataset.concat.                                          *)
(***************************************************************************)
\* The keys of the static_cov of the TSDataset i of the list.
StaticKeys(tss, i) == Cols(tss[i], "static_cov")

\* Two TSDataset of the list have a key of static_cov with different values.
StaticConflict(tss) ==
    \E i \in DOMAIN tss, j \in DOMAIN tss :
        \E key \in StaticKeys(tss, i) \cap StaticKeys(tss, j) :
            tss[i].static_cov[1][key] # tss[j].static_cov[1][key]

\* The partition s of the result q is TimeSeries.concat of the partition s
\* of the TSDataset of the list that have it, in the order of the list, and
\* is absent when none has it.
PartitionConcatenated(tss, axis, q, s) ==
    LET Has(p) == p[s] # None
        have == SelectSeq(tss, Has)
    IN  IF have = <<>> THEN q[s] = None
        ELSE q[s] = TimeSeries_concat([i \in DOMAIN have |-> have[i][s][1]], axis).ret

\* C22: concat of TSDataset raises ValueError when a key of static_cov has
\* different values in two of them; when it returns, the static_cov of the
\* result has every key of every input, once, with the value the inputs
\* have for it, and each of target, known_cov and observed_cov is
\* TimeSeries.concat of that partition over the inputs that have it, the
\* inputs without it being skipped.
C22_ConcatDataset ==
    call.op = "concat" =>
        /\ StaticConflict(call.tss) => err.cls = "ValueError"
        /\ err = NoErr =>
            /\ ret[1].static_cov # None
            /\ DOMAIN ret[1].static_cov[1] =
                    UNION { StaticKeys(call.tss, i) : i \in DOMAIN call.tss }
            /\ \A i \in DOMAIN call.tss : \A key \in StaticKeys(call.tss, i) :
                    ret[1].static_cov[1][key] = call.tss[i].static_cov[1][key]
            /\ \A s \in TimeVarying :
                    PartitionConcatenated(call.tss, call.axis, ret[1], s)
            /\ self = call.tss[1]

\* concat along the time axis of a TSDataset with target and the key s and a
\* TSDataset with a later target, observed_cov and the key t has returned:
\* the target has the rows of both, the observed_cov is that of the second,
\* static_cov has both keys.
C22_Witness ==
    /\ call.op = "concat"
    /\ err = NoErr
    /\ call.axis = 0
    /\ call.tss[1].observed_cov = None
    /\ call.tss[2].observed_cov # None
    /\ StaticKeys(call.tss, 1) = {"s"}
    /\ StaticKeys(call.tss, 2) = {"t"}
    /\ ret[1].target # None
    /\ shape0(ret[1].target[1]) = 3
    /\ ret[1].observed_cov = call.tss[2].observed_cov
    /\ DOMAIN ret[1].static_cov[1] = {"s", "t"}

\* concat of two TSDataset with different values for the key s has raised
\* for that key: their partitions concatenate.
C22_Conflict ==
    /\ call.op = "concat"
    /\ StaticConflict(call.tss)
    /\ err = ValueError("static cov key have diffent value! concat failed!")

====
